---- MODULE Spec2Model ----
(***************************************************************************)
(* State-machine model of the Vulkan swapchain / renderer frame loop and   *)
(* of the ResourceManager of saintedlittle/VulkanRmlUI.                    *)
(*                                                                         *)
(* The control thread is modelled with a program counter `pc`; the GPU and *)
(* the window system are separate actions that interleave with it at every *)
(* point where the code blocks or reads the environment.                   *)
(***************************************************************************)
EXTENDS Integers, Sequences, FiniteSets, TLC

(* ----------------------------- bounds --------------------------------- *)
\* largest framebuffer / surface dimension (0 is a minimized window)
MaxDim == 1
\* number of Vulkan object handles the device can hand out
MaxHandles == 9
\* number of BeginFrame calls of the frame loop
MaxFrames == 3
\* number of direct calls a client makes on the VulkanSwapchain interface
MaxCalls == 3
\* number of calls a client makes on the ResourceManager interface
MaxRmCalls == 5
\* largest mipLevels argument
MaxMips == 2
\* texture uploads made in a behaviour
MaxUploads == 2
\* calls made on the command layer in a behaviour
MaxCmdCalls == 3
\* bring-up and teardown calls made in a behaviour
MaxLifeCalls == 5
\* longest list of present modes the surface reports
MaxModes == 3
\* largest window dimension where a swapchain is recreated several times
MaxWindow == 2

(* ------------------------- program constants -------------------------- *)
MAX_FRAMES_IN_FLIGHT == 2
\* std::numeric_limits<uint32_t>::max(), the "undefined" extent: 0xFFFFFFFF, which is
\* (uint32_t)-1; it is only ever compared for equality
UINT32_MAX == -1
VK_NULL_HANDLE == 0

Handles == 1..MaxHandles
Dims == 0..MaxDim
\* Framebuffer sizes the window system produces: 0x0 (minimized), a size with one
\* zero dimension, and the square sizes up to MaxDim
FramebufferSizes ==
    { [width |-> d, height |-> d] : d \in Dims } \cup { [width |-> 0, height |-> MaxDim] }
VkResults == {"VK_SUCCESS", "VK_SUBOPTIMAL_KHR", "VK_ERROR_OUT_OF_DATE_KHR", "VK_ERROR_DEVICE_LOST"}
NoCall == "none"

Range(s) == {s[i] : i \in DOMAIN s}

(* --------------------------- handle allocator ------------------------- *)
\* the i-th smallest handle not in `live` (the driver may reuse a destroyed handle)
IthFree(live, i) ==
    CHOOSE h \in Handles \ live : Cardinality({g \in Handles \ live : g < h}) = i - 1

NumFree(live) == Cardinality(Handles \ live)

(* ------------------------- VulkanSwapchain object --------------------- *)
\* A default-constructed VulkanSwapchain. m_swapchainExtent has no initializer
\* in the class; it is written before it is first read, so 0x0 stands for it.
SwapchainObject ==
    [ m_initInfo                 |-> [preferredWidth |-> 0, preferredHeight |-> 0],
      m_swapchain                |-> VK_NULL_HANDLE,
      m_swapchainImages          |-> << >>,
      m_swapchainImageViews      |-> << >>,
      m_swapchainExtent          |-> [width |-> 0, height |-> 0],
      m_imageAvailableSemaphores |-> << >>,
      m_renderFinishedSemaphores |-> << >>,
      m_inFlightFences           |-> << >>,
      m_currentFrame             |-> 0,
      m_outOfDate                |-> FALSE,
      m_device                   |-> FALSE,
      m_window                   |-> FALSE ]

\* Device-side state: live object handles, signaled fences, submitted work.
DeviceState == [ live |-> {}, signaled |-> {}, inFlight |-> {} ]

\* std::clamp(v, lo, hi)
Clamp(v, lo, hi) == IF v < lo THEN lo ELSE IF hi < v THEN hi ELSE v

\* Surface capabilities the driver may report while the window's framebuffer is `fb`:
\* either the surface's current size (min = max = current), or the "undefined"
\* sentinel with a [1, MaxDim] range.
SurfaceCapabilities(fb) ==
    { [ currentExtent  |-> fb, minImageExtent |-> fb, maxImageExtent |-> fb,
        minImageCount  |-> 1, maxImageCount  |-> mx ] : mx \in 0..1 }
    \cup
    { [ currentExtent  |-> [width |-> UINT32_MAX, height |-> UINT32_MAX],
        minImageExtent |-> [width |-> 1, height |-> 1],
        maxImageExtent |-> [width |-> MaxDim, height |-> MaxDim],
        minImageCount  |-> 1, maxImageCount  |-> mx ] : mx \in 0..1 }

\* Variant: the preferred size of the InitInfo is not looked at
ChooseSwapExtent_FramebufferOnly(initInfo, capabilities, fb) ==
    IF capabilities.currentExtent.width # UINT32_MAX
    THEN capabilities.currentExtent
    ELSE [ width  |-> Clamp(fb.width,  capabilities.minImageExtent.width,
                                       capabilities.maxImageExtent.width),
           height |-> Clamp(fb.height, capabilities.minImageExtent.height,
                                       capabilities.maxImageExtent.height) ]

ChooseSwapExtent(initInfo, capabilities, fb) ==
    IF capabilities.currentExtent.width # UINT32_MAX
    THEN capabilities.currentExtent
    ELSE LET actual == IF initInfo.preferredWidth > 0 /\ initInfo.preferredHeight > 0
                       THEN [width |-> initInfo.preferredWidth, height |-> initInfo.preferredHeight]
                       ELSE [width |-> fb.width, height |-> fb.height]
         IN  [ width  |-> Clamp(actual.width,  capabilities.minImageExtent.width,
                                               capabilities.maxImageExtent.width),
               height |-> Clamp(actual.height, capabilities.minImageExtent.height,
                                               capabilities.maxImageExtent.height) ]

\* VkPresentModeKHR values a surface may report
PresentModes == {"IMMEDIATE", "MAILBOX", "FIFO", "FIFO_RELAXED"}

\* The first element of the list equal to mode, as the range-for returns it
FirstEqual(list, mode) ==
    list[CHOOSE i \in DOMAIN list :
            /\ list[i] = mode
            /\ \A j \in DOMAIN list : j < i => list[j] # mode]

\* Variant: mailbox, then immediate, are preferred whatever enableVSync is
ChooseSwapPresentMode_IgnoreVSync(enableVSync, availablePresentModes) ==
    IF "MAILBOX" \in Range(availablePresentModes)
    THEN FirstEqual(availablePresentModes, "MAILBOX")
    ELSE IF "IMMEDIATE" \in Range(availablePresentModes)
    THEN FirstEqual(availablePresentModes, "IMMEDIATE")
    ELSE "FIFO"

\* enableVSync is m_initInfo.enableVSync
ChooseSwapPresentMode(enableVSync, availablePresentModes) ==
    IF ~enableVSync /\ "MAILBOX" \in Range(availablePresentModes)
    THEN FirstEqual(availablePresentModes, "MAILBOX")
    ELSE IF ~enableVSync /\ "IMMEDIATE" \in Range(availablePresentModes)
    THEN FirstEqual(availablePresentModes, "IMMEDIATE")
    ELSE "FIFO"

\* imageCount of CreateSwapchain: minImageCount + 1, capped by a nonzero maxImageCount
ChooseImageCount(capabilities) ==
    LET imageCount == capabilities.minImageCount + 1
    IN  IF capabilities.maxImageCount > 0 /\ imageCount > capabilities.maxImageCount
        THEN capabilities.maxImageCount
        ELSE imageCount

\* In the operators below S = [sc |-> VulkanSwapchain fields, vk |-> device state];
\* an operator that returns a value yields [S |-> ..., ret |-> ...].

\* Variant: the preferred size applies to one creation and is cleared by it
CreateSwapchain_PreferredOnce(S, capabilities, fb, ok) ==
    LET extent     == ChooseSwapExtent(S.sc.m_initInfo, capabilities, fb)
        imageCount == ChooseImageCount(capabilities)
        h          == IthFree(S.vk.live, 1)
    IN  IF ~ok \/ NumFree(S.vk.live) = 0
        THEN [S |-> S, ret |-> FALSE]
        ELSE [S |-> [ sc |-> [S.sc EXCEPT !.m_swapchain = h,
                                          !.m_swapchainImages = [i \in 1..imageCount |-> i],
                                          !.m_swapchainExtent = extent,
                                          !.m_initInfo = [preferredWidth |-> 0,
                                                          preferredHeight |-> 0]],
                      vk |-> [S.vk EXCEPT !.live = @ \cup {h}] ],
              ret |-> TRUE]

CreateSwapchain(S, capabilities, fb, ok) ==
    LET extent     == ChooseSwapExtent(S.sc.m_initInfo, capabilities, fb)
        imageCount == ChooseImageCount(capabilities)
        h          == IthFree(S.vk.live, 1)
    IN  IF ~ok \/ NumFree(S.vk.live) = 0
        THEN [S |-> S, ret |-> FALSE]
        ELSE [S |-> [ sc |-> [S.sc EXCEPT !.m_swapchain = h,
                                          !.m_swapchainImages = [i \in 1..imageCount |-> i],
                                          !.m_swapchainExtent = extent],
                      vk |-> [S.vk EXCEPT !.live = @ \cup {h}] ],
              ret |-> TRUE]

\* failAt = 0: every vkCreateImageView succeeds; failAt = k: the k-th one fails.
CreateImageViews(S, failAt) ==
    LET n       == Len(S.sc.m_swapchainImages)
        old     == S.sc.m_swapchainImageViews
        resized == [i \in 1..n |-> IF i <= Len(old) THEN old[i] ELSE VK_NULL_HANDLE]
        avail   == NumFree(S.vk.live)
        stop    == IF failAt \in 1..n THEN failAt
                   ELSE IF avail < n THEN avail + 1 ELSE 0
        made    == IF stop = 0 THEN n ELSE stop - 1
        views   == [i \in 1..n |-> IF i <= made THEN IthFree(S.vk.live, i) ELSE resized[i]]
    IN  [S |-> [ sc |-> [S.sc EXCEPT !.m_swapchainImageViews = views],
                 vk |-> [S.vk EXCEPT !.live = @ \cup {views[i] : i \in 1..made}] ],
         ret |-> (stop = 0)]

\* ok = FALSE: the creations of the first slot fail.
\* Fences are created with VK_FENCE_CREATE_SIGNALED_BIT.
CreateSyncObjects(S, ok) ==
    LET good == ok /\ NumFree(S.vk.live) >= 3 * MAX_FRAMES_IN_FLIGHT
        pad(v) == [i \in 1..MAX_FRAMES_IN_FLIGHT |-> IF i <= Len(v) THEN v[i] ELSE VK_NULL_HANDLE]
        ia == [i \in 1..MAX_FRAMES_IN_FLIGHT |-> IthFree(S.vk.live, 3 * (i - 1) + 1)]
        rf == [i \in 1..MAX_FRAMES_IN_FLIGHT |-> IthFree(S.vk.live, 3 * (i - 1) + 2)]
        fe == [i \in 1..MAX_FRAMES_IN_FLIGHT |-> IthFree(S.vk.live, 3 * (i - 1) + 3)]
    IN  IF ~good
        THEN [S |-> [S EXCEPT !.sc.m_imageAvailableSemaphores = pad(@),
                              !.sc.m_renderFinishedSemaphores = pad(@),
                              !.sc.m_inFlightFences = pad(@)],
              ret |-> FALSE]
        ELSE [S |-> [ sc |-> [S.sc EXCEPT !.m_imageAvailableSemaphores = ia,
                                          !.m_renderFinishedSemaphores = rf,
                                          !.m_inFlightFences = fe],
                      vk |-> [S.vk EXCEPT !.live = @ \cup Range(ia) \cup Range(rf) \cup Range(fe),
                                          !.signaled = @ \cup Range(fe)] ],
              ret |-> TRUE]

\* Variant: the swapchain teardown also destroys the per-frame sync objects
CleanupSwapchain_AndSync(S) ==
    IF ~S.sc.m_device THEN S
    ELSE LET gone == Range(S.sc.m_swapchainImageViews) \cup {S.sc.m_swapchain}
                     \cup Range(S.sc.m_imageAvailableSemaphores)
                     \cup Range(S.sc.m_renderFinishedSemaphores)
                     \cup Range(S.sc.m_inFlightFences)
         IN  [ sc |-> [S.sc EXCEPT !.m_swapchainImageViews = << >>,
                                   !.m_swapchain = VK_NULL_HANDLE,
                                   !.m_swapchainImages = << >>,
                                   !.m_imageAvailableSemaphores = << >>,
                                   !.m_renderFinishedSemaphores = << >>,
                                   !.m_inFlightFences = << >>],
               vk |-> [S.vk EXCEPT !.live = @ \ gone, !.signaled = @ \ gone] ]

CleanupSwapchain(S) ==
    IF ~S.sc.m_device THEN S
    ELSE [ sc |-> [S.sc EXCEPT !.m_swapchainImageViews = << >>,
                               !.m_swapchain = VK_NULL_HANDLE,
                               !.m_swapchainImages = << >>],
           vk |-> [S.vk EXCEPT !.live = @ \ (Range(S.sc.m_swapchainImageViews)
                                             \cup {S.sc.m_swapchain})] ]

CleanupSyncObjects(S) ==
    IF ~S.sc.m_device THEN S
    ELSE LET gone == Range(S.sc.m_imageAvailableSemaphores)
                     \cup Range(S.sc.m_renderFinishedSemaphores)
                     \cup Range(S.sc.m_inFlightFences)
         IN  [ sc |-> [S.sc EXCEPT !.m_imageAvailableSemaphores = << >>,
                                   !.m_renderFinishedSemaphores = << >>,
                                   !.m_inFlightFences = << >>],
               vk |-> [S.vk EXCEPT !.live = @ \ gone, !.signaled = @ \ gone] ]

\* VulkanSwapchain::Cleanup after its vkDeviceWaitIdle has returned
Cleanup(S) ==
    IF ~S.sc.m_device THEN S
    ELSE CleanupSwapchain(CleanupSyncObjects(S))

\* info = [device, window : BOOLEAN (non-null), preferredWidth, preferredHeight]
Initialize(S, info, capabilities, fb, okSwap, failView, okSync) ==
    IF ~info.device \/ ~info.window
    THEN [S |-> S, ret |-> FALSE]
    ELSE LET S0 == [S EXCEPT !.sc.m_initInfo = [preferredWidth  |-> info.preferredWidth,
                                                preferredHeight |-> info.preferredHeight],
                             !.sc.m_device = TRUE,
                             !.sc.m_window = TRUE]
             r1 == CreateSwapchain(S0, capabilities, fb, okSwap)
             r2 == CreateImageViews(r1.S, failView)
             r3 == CreateSyncObjects(r2.S, okSync)
         IN  IF ~r1.ret THEN [S |-> r1.S, ret |-> FALSE]
             ELSE IF ~r2.ret THEN [S |-> r2.S, ret |-> FALSE]
             ELSE IF ~r3.ret THEN [S |-> r3.S, ret |-> FALSE]
             ELSE [S |-> r3.S, ret |-> TRUE]

\* The fence AcquireNextImage waits on and resets
CurrentFence(S) == S.sc.m_inFlightFences[S.sc.m_currentFrame + 1]

\* Variant: AcquireNextImage without the vkWaitForFences of line 73
FenceWaitDone_NoWait(S) == TRUE

\* vkWaitForFences on the current slot's fence (line 73) can return
FenceWaitDone(S) == CurrentFence(S) \in S.vk.signaled

\* AcquireNextImage returns before any driver call
AcquireEarlyOut(S) == ~S.sc.m_device \/ S.sc.m_swapchain = VK_NULL_HANDLE

\* vkResetFences on the current slot's fence (line 93)
ResetCurrentFence(S) == [S EXCEPT !.vk.signaled = @ \ {CurrentFence(S)}]

\* Variant: the fence is reset right after the wait, before the result of
\* vkAcquireNextImageKHR is examined
AcquireNextImage_ResetFirst(S, result, index, imageIndex) ==
    IF AcquireEarlyOut(S)
    THEN [S |-> S, ret |-> FALSE, img |-> imageIndex, vkResult |-> NoCall]
    ELSE IF result = "VK_ERROR_OUT_OF_DATE_KHR"
    THEN [S |-> [ResetCurrentFence(S) EXCEPT !.sc.m_outOfDate = TRUE], ret |-> FALSE,
          img |-> imageIndex, vkResult |-> result]
    ELSE IF result # "VK_SUCCESS" /\ result # "VK_SUBOPTIMAL_KHR"
    THEN [S |-> ResetCurrentFence(S), ret |-> FALSE, img |-> imageIndex, vkResult |-> result]
    ELSE [S |-> ResetCurrentFence(S), ret |-> TRUE, img |-> index, vkResult |-> result]

\* AcquireNextImage once vkWaitForFences has returned; `result` and `index` are
\* what vkAcquireNextImageKHR yields. img is the value left in the out parameter.
AcquireNextImage(S, result, index, imageIndex) ==
    IF AcquireEarlyOut(S)
    THEN [S |-> S, ret |-> FALSE, img |-> imageIndex, vkResult |-> NoCall]
    ELSE IF result = "VK_ERROR_OUT_OF_DATE_KHR"
    THEN [S |-> [S EXCEPT !.sc.m_outOfDate = TRUE], ret |-> FALSE,
          img |-> imageIndex, vkResult |-> result]
    ELSE IF result # "VK_SUCCESS" /\ result # "VK_SUBOPTIMAL_KHR"
    THEN [S |-> S, ret |-> FALSE, img |-> imageIndex, vkResult |-> result]
    ELSE [S |-> ResetCurrentFence(S), ret |-> TRUE, img |-> index, vkResult |-> result]

PresentImage(S, imageIndex, result) ==
    IF ~S.sc.m_device \/ S.sc.m_swapchain = VK_NULL_HANDLE
    THEN [S |-> S, ret |-> FALSE, vkResult |-> NoCall]
    ELSE IF result = "VK_ERROR_OUT_OF_DATE_KHR" \/ result = "VK_SUBOPTIMAL_KHR"
    THEN [S |-> [S EXCEPT !.sc.m_outOfDate = TRUE], ret |-> FALSE, vkResult |-> result]
    ELSE IF result # "VK_SUCCESS"
    THEN [S |-> S, ret |-> FALSE, vkResult |-> result]
    ELSE [S |-> S, ret |-> TRUE, vkResult |-> result]

MarkOutOfDate(S) == [S EXCEPT !.sc.m_outOfDate = TRUE]

\* variant: the index is incremented without wrapping
AdvanceFrame_NoWrap(S) == [S EXCEPT !.sc.m_currentFrame = @ + 1]

AdvanceFrame(S) == [S EXCEPT !.sc.m_currentFrame = (@ + 1) % MAX_FRAMES_IN_FLIGHT]

\* RecreateSwapchain from its vkDeviceWaitIdle on (lines 143-164), once idle
RecreateRebuild(S, capabilities, fb, okSwap, failView) ==
    LET S1 == CleanupSwapchain(S)
        r1 == CreateSwapchain(S1, capabilities, fb, okSwap)
        r2 == CreateImageViews(r1.S, failView)
    IN  IF ~r1.ret THEN [S |-> r1.S, ret |-> FALSE]
        ELSE IF ~r2.ret THEN [S |-> r2.S, ret |-> FALSE]
        ELSE [S |-> [r2.S EXCEPT !.sc.m_outOfDate = FALSE], ret |-> TRUE]

\* What the driver's create calls may do during Initialize: all succeed, the
\* swapchain creation fails, the first image view fails, the sync objects fail
CreateOutcomes ==
    { [okSwap |-> TRUE,  failView |-> 0, okSync |-> TRUE],
      [okSwap |-> FALSE, failView |-> 0, okSync |-> TRUE],
      [okSwap |-> TRUE,  failView |-> 1, okSync |-> TRUE],
      [okSwap |-> TRUE,  failView |-> 0, okSync |-> FALSE] }

\* ... and during RecreateSwapchain
RebuildOutcomes == { o \in CreateOutcomes : o.okSync }

\* The capabilities a create sequence may have read. They matter only when
\* vkCreateSwapchainKHR succeeds (a failed CreateSwapchain stores nothing), so
\* one representative stands for them otherwise.
CapabilitiesIf(stored, fb) ==
    IF stored THEN SurfaceCapabilities(fb)
    ELSE { CHOOSE capabilities \in SurfaceCapabilities(fb) : TRUE }

(* =========================== ResourceManager ========================= *)
\* In the operators below R = [rm |-> ResourceManager fields, vma |-> what the
\* allocator and the device hold, cmd |-> command buffers allocated from the
\* pool]. An operator yields [R, ok, buffer, image, ops, cmdOps, thrown, reported]: the
\* value returned, the allocator/device calls made on resources (in order), the
\* command-buffer calls made (in order) and whether an exception left the call.

\* AllocatedBuffer{} and AllocatedImage{}: every field null
NullBuffer == [buffer |-> VK_NULL_HANDLE, allocation |-> VK_NULL_HANDLE, pMappedData |-> FALSE]

NullImage == [image |-> VK_NULL_HANDLE, imageView |-> VK_NULL_HANDLE,
              allocation |-> VK_NULL_HANDLE, mipLevels |-> 1]

AllocatedBuffer_IsValid(b) == b.buffer # VK_NULL_HANDLE /\ b.allocation # VK_NULL_HANDLE

AllocatedImage_IsValid(i) == i.image # VK_NULL_HANDLE /\ i.allocation # VK_NULL_HANDLE

\* A ResourceManager constructed with a renderer
ResourceManagerObject ==
    [ m_renderer |-> TRUE, m_initialized |-> FALSE, m_allocationCount |-> 0 ]

AllocatorState == [ buffers |-> {}, images |-> {}, views |-> {} ]

RmLive(R) == R.vma.buffers \cup R.vma.images \cup R.vma.views

Call(api, target) == [api |-> api, target |-> target]

\* The outcome of a call without a result
Done(R, ops, cmdOps, thrown) ==
    [R |-> R, ok |-> ~thrown, buffer |-> NullBuffer, image |-> NullImage,
     ops |-> ops, cmdOps |-> cmdOps, thrown |-> thrown, reported |-> FALSE]

\* The call wrote an error message to std::cerr
Reporting(r) == [r EXCEPT !.reported = TRUE]

\* `last` before any ResourceManager call
NoCallYet ==
    [ op |-> "none", ok |-> FALSE, buffer |-> NullBuffer, image |-> NullImage,
      ops |-> << >>, cmdOps |-> << >>, thrown |-> FALSE, argsValid |-> TRUE,
      fault |-> "none", reported |-> FALSE ]

ResourceManager_Initialize(R, okAllocator) ==
    IF R.rm.m_initialized \/ ~R.rm.m_renderer \/ ~okAllocator
    THEN [Done(R, << >>, << >>, FALSE) EXCEPT !.ok = FALSE, !.reported = TRUE]
    ELSE Done([R EXCEPT !.rm.m_initialized = TRUE], << >>, << >>, FALSE)

\* Cleanup destroys the allocator, and the allocations with it
ResourceManager_Cleanup(R) ==
    IF ~R.rm.m_initialized
    THEN Done(R, << >>, << >>, FALSE)
    ELSE Done([R EXCEPT !.rm = [m_renderer |-> FALSE, m_initialized |-> FALSE,
                                m_allocationCount |-> 0],
                        !.vma.buffers = {}, !.vma.images = {}],
              << >>, << >>, FALSE)

\* okAlloc: vmaCreateBuffer returns VK_SUCCESS; mapped: VMA_ALLOCATION_CREATE_MAPPED_BIT
CreateBuffer(R, okAlloc, mapped) ==
    IF ~R.rm.m_initialized
    THEN [Done(R, << >>, << >>, FALSE) EXCEPT !.ok = FALSE, !.reported = TRUE]
    ELSE IF ~okAlloc
    THEN [Done(R, << Call("vmaCreateBuffer", VK_NULL_HANDLE) >>, << >>, FALSE) EXCEPT !.ok = FALSE, !.reported = TRUE]
    ELSE LET h == IthFree(RmLive(R), 1)
         IN  [Done([R EXCEPT !.vma.buffers = @ \cup {h}, !.rm.m_allocationCount = @ + 1],
                   << Call("vmaCreateBuffer", h) >>, << >>, FALSE)
                EXCEPT !.buffer = [buffer |-> h, allocation |-> h, pMappedData |-> mapped]]

\* ResourceManager::CreateImageView: the new view, or VK_NULL_HANDLE
CreateImageView(R, okView) == IF okView THEN IthFree(RmLive(R), 1) ELSE VK_NULL_HANDLE

\* Variant: the image of a failed view creation is not given back
CreateImage_KeepImage(R, okAlloc, okView, mipLevels) ==
    IF ~R.rm.m_initialized
    THEN [Done(R, << >>, << >>, FALSE) EXCEPT !.ok = FALSE, !.reported = TRUE]
    ELSE IF ~okAlloc
    THEN [Done(R, << Call("vmaCreateImage", VK_NULL_HANDLE) >>, << >>, FALSE) EXCEPT !.ok = FALSE, !.reported = TRUE]
    ELSE LET h  == IthFree(RmLive(R), 1)
             R1 == [R EXCEPT !.vma.images = @ \cup {h}]
             v  == CreateImageView(R1, okView)
         IN  IF v = VK_NULL_HANDLE
             THEN [Done(R1, << Call("vmaCreateImage", h), Call("vkCreateImageView", h) >>,
                        << >>, FALSE) EXCEPT !.ok = FALSE, !.reported = TRUE]
             ELSE [Done([R1 EXCEPT !.vma.views = @ \cup {v}, !.rm.m_allocationCount = @ + 1],
                        << Call("vmaCreateImage", h), Call("vkCreateImageView", h) >>,
                        << >>, FALSE)
                     EXCEPT !.image = [image |-> h, imageView |-> v, allocation |-> h,
                                       mipLevels |-> mipLevels]]

CreateImage(R, okAlloc, okView, mipLevels) ==
    IF ~R.rm.m_initialized
    THEN [Done(R, << >>, << >>, FALSE) EXCEPT !.ok = FALSE, !.reported = TRUE]
    ELSE IF ~okAlloc
    THEN [Done(R, << Call("vmaCreateImage", VK_NULL_HANDLE) >>, << >>, FALSE) EXCEPT !.ok = FALSE, !.reported = TRUE]
    ELSE LET h  == IthFree(RmLive(R), 1)
             R1 == [R EXCEPT !.vma.images = @ \cup {h}]
             v  == CreateImageView(R1, okView)
         IN  IF v = VK_NULL_HANDLE
             THEN [Done(R, << Call("vmaCreateImage", h), Call("vkCreateImageView", h),
                              Call("vmaDestroyImage", h) >>,
                        << >>, FALSE) EXCEPT !.ok = FALSE, !.reported = TRUE]
             ELSE [Done([R1 EXCEPT !.vma.views = @ \cup {v}, !.rm.m_allocationCount = @ + 1],
                        << Call("vmaCreateImage", h), Call("vkCreateImageView", h) >>,
                        << >>, FALSE)
                     EXCEPT !.image = [image |-> h, imageView |-> v, allocation |-> h,
                                       mipLevels |-> mipLevels]]

\* What vmaCreateImage answers for an image of the given extent: the library
\* returns VK_ERROR_INITIALIZATION_FAILED for a zero width or height before it
\* asks the device; otherwise the device decides (okAlloc)
VmaCreateImageSucceeds(width, height, okAlloc) == width > 0 /\ height > 0 /\ okAlloc

\* Variant: a zero dimension is rounded up to one texel
CreateImage2D_RoundUp(R, width, height, mipLevels, okAlloc, okView) ==
    CreateImage(R, VmaCreateImageSucceeds(IF width = 0 THEN 1 ELSE width,
                                          IF height = 0 THEN 1 ELSE height, okAlloc),
                okView, mipLevels)

\* The VkImageCreateInfo carries width and height as given
CreateImage2D(R, width, height, mipLevels, okAlloc, okView) ==
    CreateImage(R, VmaCreateImageSucceeds(width, height, okAlloc), okView, mipLevels)

\* CreateImage2D with the usage of a sampled transfer destination
CreateTexture2D(R, width, height, mipLevels, okAlloc, okView) ==
    CreateImage2D(R, width, height, mipLevels, okAlloc, okView)

\* Variant: a destroy that does not touch the counter
Decrement_Skip(n) == n

\* m_allocationCount--, floored at zero
Decrement(n) == IF n > 0 THEN n - 1 ELSE n

DestroyBuffer(R, b) ==
    IF ~R.rm.m_initialized \/ ~AllocatedBuffer_IsValid(b)
    THEN Done(R, << >>, << >>, FALSE)
    ELSE Done([R EXCEPT !.vma.buffers = @ \ {b.buffer},
                        !.rm.m_allocationCount = Decrement(@)],
              << Call("vmaDestroyBuffer", b.buffer) >>, << >>, FALSE)

DestroyImage(R, i) ==
    IF ~R.rm.m_initialized \/ ~AllocatedImage_IsValid(i)
    THEN Done(R, << >>, << >>, FALSE)
    ELSE Done([R EXCEPT !.vma.views = @ \ {i.imageView},
                        !.vma.images = @ \ {i.image},
                        !.rm.m_allocationCount = Decrement(@)],
              (IF i.imageView # VK_NULL_HANDLE
               THEN << Call("vkDestroyImageView", i.image) >> ELSE << >>)
                \o << Call("vmaDestroyImage", i.image) >>,
              << >>, FALSE)

\* pMappedData is null: the outcome of vmaMapMemory decides
MapBuffer(R, b, okMap) ==
    IF ~R.rm.m_initialized \/ ~AllocatedBuffer_IsValid(b)
    THEN [Done(R, << >>, << >>, FALSE) EXCEPT !.ok = FALSE]
    ELSE IF b.pMappedData
    THEN Done(R, << >>, << >>, FALSE)
    ELSE [Done(R, << Call("vmaMapMemory", b.allocation) >>, << >>, FALSE)
            EXCEPT !.ok = okMap, !.reported = ~okMap]

\* UnmapBuffer, FlushBuffer and InvalidateBuffer: one allocator call `api`
AllocationCall(R, b, api) ==
    IF ~R.rm.m_initialized \/ ~AllocatedBuffer_IsValid(b)
    THEN Done(R, << >>, << >>, FALSE)
    ELSE Done(R, << Call(api, b.allocation) >>, << >>, FALSE)

UnmapBuffer(R, b) == AllocationCall(R, b, "vmaUnmapMemory")

FlushBuffer(R, b) == AllocationCall(R, b, "vmaFlushAllocation")

InvalidateBuffer(R, b) == AllocationCall(R, b, "vmaInvalidateAllocation")

\* What the command layer may do to a single-time command sequence
SingleTimeOutcomes == {"ok", "allocate_fails", "begin_fails", "end_fails", "submit_fails"}

\* VulkanCommandBuffer::BeginSingleTimeCommands
BeginSingleTimeCommands(R, st) ==
    IF st = "allocate_fails"
    THEN Done(R, << >>, << "vkAllocateCommandBuffers" >>, TRUE)
    ELSE IF st = "begin_fails"
    THEN Reporting(Done(R, << >>, << "vkAllocateCommandBuffers", "vkBeginCommandBuffer",
                                   "vkFreeCommandBuffers" >>, TRUE))
    ELSE Done([R EXCEPT !.cmd = @ + 1], << >>,
              << "vkAllocateCommandBuffers", "vkBeginCommandBuffer" >>, FALSE)

\* Variant: the buffer is freed right after the submission, without the wait
EndSingleTimeCommands_NoWait(R, st) ==
    LET R1 == [R EXCEPT !.cmd = @ - 1]
    IN  IF st = "end_fails"
        THEN Reporting(Done(R1, << >>, << "vkEndCommandBuffer", "vkFreeCommandBuffers" >>, TRUE))
        ELSE IF st = "submit_fails"
        THEN Reporting(Done(R1, << >>, << "vkEndCommandBuffer", "vkQueueSubmit",
                                        "vkFreeCommandBuffers" >>, TRUE))
        ELSE Done(R1, << >>, << "vkEndCommandBuffer", "vkQueueSubmit",
                              "vkFreeCommandBuffers" >>, FALSE)

\* VulkanCommandBuffer::EndSingleTimeCommands
EndSingleTimeCommands(R, st) ==
    LET R1 == [R EXCEPT !.cmd = @ - 1]
    IN  IF st = "end_fails"
        THEN Reporting(Done(R1, << >>, << "vkEndCommandBuffer", "vkFreeCommandBuffers" >>, TRUE))
        ELSE IF st = "submit_fails"
        THEN Reporting(Done(R1, << >>, << "vkEndCommandBuffer", "vkQueueSubmit",
                                        "vkFreeCommandBuffers" >>, TRUE))
        ELSE Done(R1, << >>, << "vkEndCommandBuffer", "vkQueueSubmit", "vkQueueWaitIdle",
                              "vkFreeCommandBuffers" >>, FALSE)

\* Begin, record `recorded`, End
SingleTime(R, recorded, st) ==
    LET b == BeginSingleTimeCommands(R, st)
        e == EndSingleTimeCommands(b.R, st)
    IN  IF b.thrown THEN b
        ELSE [Done(e.R, recorded, b.cmdOps \o e.cmdOps, e.thrown)
                EXCEPT !.reported = e.reported]

CopyBuffer(R, srcBuffer, dstBuffer, st) ==
    IF ~R.rm.m_initialized \/ ~AllocatedBuffer_IsValid(srcBuffer)
                           \/ ~AllocatedBuffer_IsValid(dstBuffer)
    THEN Done(R, << >>, << >>, FALSE)
    ELSE SingleTime(R, << Call("vkCmdCopyBuffer", srcBuffer.buffer),
                          Call("vkCmdCopyBuffer", dstBuffer.buffer) >>, st)

CopyBufferToImage(R, buffer, image, st) ==
    IF ~R.rm.m_initialized \/ ~AllocatedBuffer_IsValid(buffer)
                           \/ ~AllocatedImage_IsValid(image)
    THEN Done(R, << >>, << >>, FALSE)
    ELSE SingleTime(R, << Call("vkCmdCopyBufferToImage", buffer.buffer),
                          Call("vkCmdCopyBufferToImage", image.image) >>, st)

VkImageLayouts ==
    {"UNDEFINED", "TRANSFER_DST_OPTIMAL", "SHADER_READ_ONLY_OPTIMAL",
     "DEPTH_STENCIL_ATTACHMENT_OPTIMAL"}

\* The (oldLayout, newLayout) pairs TransitionImageLayout has a barrier for
SupportedTransition(oldLayout, newLayout) ==
    \/ oldLayout = "UNDEFINED" /\ newLayout = "TRANSFER_DST_OPTIMAL"
    \/ oldLayout = "TRANSFER_DST_OPTIMAL" /\ newLayout = "SHADER_READ_ONLY_OPTIMAL"
    \/ oldLayout = "UNDEFINED" /\ newLayout = "DEPTH_STENCIL_ATTACHMENT_OPTIMAL"

\* Variant: an unsupported pair gets a barrier with empty access masks and is
\* submitted like the others
TransitionImageLayout_AnyPair(R, image, oldLayout, newLayout, st) ==
    IF ~R.rm.m_initialized
    THEN Done(R, << >>, << >>, FALSE)
    ELSE SingleTime(R, << Call("vkCmdPipelineBarrier", image) >>, st)

\* image is a raw VkImage. An unsupported pair returns after
\* BeginSingleTimeCommands, without EndSingleTimeCommands.
TransitionImageLayout(R, image, oldLayout, newLayout, st) ==
    IF ~R.rm.m_initialized
    THEN Done(R, << >>, << >>, FALSE)
    ELSE IF ~SupportedTransition(oldLayout, newLayout)
    THEN LET b == BeginSingleTimeCommands(R, st)
         IN  IF b.thrown THEN b ELSE Reporting(b)
    ELSE SingleTime(R, << Call("vkCmdPipelineBarrier", image) >>, st)

\* What GenerateMipmaps records for levels 1 .. n-1
RECURSIVE MipLevelCommands(_, _)
MipLevelCommands(image, n) ==
    IF n <= 1 THEN << >>
    ELSE MipLevelCommands(image, n - 1)
           \o << Call("vkCmdPipelineBarrier", image), Call("vkCmdBlitImage", image),
                 Call("vkCmdPipelineBarrier", image) >>

\* image is a raw VkImage; linearBlit: the format supports linear-filtered blits
GenerateMipmaps(R, image, linearBlit, mipLevels, st) ==
    IF ~R.rm.m_initialized
    THEN Done(R, << >>, << >>, FALSE)
    ELSE IF ~linearBlit
    THEN Reporting(Done(R, << >>, << >>, FALSE))
    ELSE SingleTime(R, MipLevelCommands(image, mipLevels)
                         \o << Call("vkCmdPipelineBarrier", image) >>, st)

(* ------------------------- texture upload paths ----------------------- *)
\* The device carried out what the call recorded
Performed(r) == ~r.thrown /\ r.ops # << >>

\* An upload yields [R, returned, thrown, image, layout, copied, requests,
\* copyLayouts]: whether a texture went back to the caller, whether an exception
\* left the call, the image and the layout the device has it in, whether the
\* pixels reached the image, the oldLayout of each TransitionImageLayout request
\* next to the image's layout at that moment, and the image's layout at each
\* CopyBufferToImage.
UploadResult(R, returned, thrown, image, layout, copied, requests, copyLayouts) ==
    [R |-> R, returned |-> returned, thrown |-> thrown, image |-> image,
     layout |-> layout, copied |-> copied, requests |-> requests,
     copyLayouts |-> copyLayouts]

\* `tex` before any upload
NoUpload ==
    [ op |-> "none", returned |-> FALSE, thrown |-> FALSE, image |-> NullImage,
      layout |-> "UNDEFINED", copied |-> FALSE, requests |-> << >>,
      copyLayouts |-> << >> ]

Request(oldLayout, actual) == [oldLayout |-> oldLayout, actual |-> actual]

\* The three calls both paths make on a new image (AssetManager.cpp:162-170,
\* VulkanRmlRenderer.cpp:647-655): transition to transfer-dst, copy, transition
\* to shader-read-only. None is inside a try block: an exception leaves the path.
\* staged: the pixels were written to the staging buffer.
TransitionCopyTransition(R, image, stagingBuffer, staged, sts) ==
    LET t1 == TransitionImageLayout(R, image.image, "UNDEFINED", "TRANSFER_DST_OPTIMAL",
                                    sts[1])
        l1 == IF Performed(t1) THEN "TRANSFER_DST_OPTIMAL" ELSE "UNDEFINED"
        c  == CopyBufferToImage(t1.R, stagingBuffer, image, sts[2])
        cp == Performed(c) /\ staged
        t2 == TransitionImageLayout(c.R, image.image, "TRANSFER_DST_OPTIMAL",
                                    "SHADER_READ_ONLY_OPTIMAL", sts[3])
        l2 == IF Performed(t2) THEN "SHADER_READ_ONLY_OPTIMAL" ELSE l1
        q1 == << Request("UNDEFINED", "UNDEFINED") >>
        q2 == q1 \o << Request("TRANSFER_DST_OPTIMAL", l1) >>
    IN  IF t1.thrown
        THEN UploadResult(t1.R, FALSE, TRUE, image, l1, FALSE, q1, << >>)
        ELSE IF c.thrown
        THEN UploadResult(c.R, FALSE, TRUE, image, l1, FALSE, q1, << l1 >>)
        ELSE IF t2.thrown
        THEN UploadResult(t2.R, FALSE, TRUE, image, l2, cp, q2, << l1 >>)
        ELSE UploadResult(t2.R, TRUE, FALSE, image, l2, cp, q2, << l1 >>)

\* A path ends without a texture and without an exception
NoTexture(R) ==
    UploadResult(R, FALSE, FALSE, NullImage, "UNDEFINED", FALSE, << >>, << >>)

\* AssetManager::LoadTexture once the file has been decoded (lines 142-183)
LoadTexture(R, okImage, okView, okStaging, sts) ==
    LET img == CreateImage(R, okImage, okView, 1)
        stg == CreateBuffer(img.R, okStaging, TRUE)
        map == MapBuffer(stg.R, stg.buffer, TRUE)
        unm == IF map.ok THEN UnmapBuffer(map.R, stg.buffer) ELSE map
        up  == TransitionCopyTransition(unm.R, img.image, stg.buffer, map.ok, sts)
    IN  IF ~AllocatedImage_IsValid(img.image) THEN NoTexture(img.R)
        ELSE IF ~AllocatedBuffer_IsValid(stg.buffer)
        THEN UploadResult(stg.R, TRUE, FALSE, img.image, "UNDEFINED", FALSE, << >>, << >>)
        ELSE IF up.thrown THEN up
        ELSE [up EXCEPT !.R = DestroyBuffer(up.R, stg.buffer).R]

\* VulkanRmlRenderer::CreateTextureFromData with data and a positive size
\* (lines 624-667)
CreateTextureFromData(R, okImage, okView, okStaging, sts) ==
    LET stg == CreateBuffer(R, okStaging, TRUE)
        map == MapBuffer(stg.R, stg.buffer, TRUE)
        unm == IF map.ok THEN UnmapBuffer(map.R, stg.buffer) ELSE map
        img == CreateImage(unm.R, okImage, okView, 1)
        up  == TransitionCopyTransition(img.R, img.image, stg.buffer, map.ok, sts)
    IN  IF ~AllocatedBuffer_IsValid(stg.buffer) THEN NoTexture(stg.R)
        ELSE IF ~AllocatedImage_IsValid(img.image)
        THEN NoTexture(DestroyBuffer(img.R, stg.buffer).R)
        ELSE IF up.thrown THEN up
        ELSE [up EXCEPT !.R = DestroyBuffer(up.R, stg.buffer).R]

(* ------------------- VulkanCommandBuffer: the command layer ------------ *)
\* Queues of the logical device
GraphicsQueue == 1
PresentQueue == 2

\* The VulkanDevice the layer was given, once its logical device exists
ReadyDevice == [device |-> 1, graphicsQueue |-> GraphicsQueue]

\* A VulkanCommandBuffer after construction. m_device: the pointer is set;
\* m_commandBuffers: how many the vector holds; transient: command buffers
\* AllocateCommandBuffer took from the pool that have not been freed.
CommandLayerObject ==
    [ m_initialized |-> FALSE, m_device |-> FALSE, m_commandPool |-> VK_NULL_HANDLE,
      m_commandBuffers |-> 0, transient |-> 0 ]

\* SubmitInfo with its defaults
NoSubmitInfo ==
    [ commandBuffers |-> << >>, waitSemaphores |-> << >>, waitStages |-> << >>,
      signalSemaphores |-> << >>, fence |-> VK_NULL_HANDLE, queue |-> VK_NULL_HANDLE ]

\* A Vulkan call the layer made; vkQueueSubmit carries what it was given
VkCall(api) ==
    [ api |-> api, queue |-> VK_NULL_HANDLE, submitCount |-> 0, info |-> NoSubmitInfo ]

VkQueueSubmit(queue, info) ==
    [ api |-> "vkQueueSubmit", queue |-> queue, submitCount |-> 1,
      info |-> [info EXCEPT !.queue = VK_NULL_HANDLE] ]

\* A call on the layer yields [C, ret, commandBuffer, thrown, reported, log]:
\* thrown "none", "std" (a std::exception) or "other"
CmdResult(C, ret, commandBuffer, thrown, reported, log) ==
    [ C |-> C, ret |-> ret, commandBuffer |-> commandBuffer, thrown |-> thrown,
      reported |-> reported, log |-> log ]

CmdInitializeOutcomes == {"ok", "pool_fails", "allocate_fails", "resize_throws"}

\* VulkanCommandBuffer::Cleanup (lines 51-80)
CmdCleanup(C, D) ==
    IF ~C.m_initialized \/ ~C.m_device THEN CmdResult(C, TRUE, 0, "none", FALSE, << >>)
    ELSE IF D.device = VK_NULL_HANDLE THEN CmdResult(C, TRUE, 0, "none", FALSE, << >>)
    ELSE CmdResult([C EXCEPT !.m_commandBuffers = 0, !.m_commandPool = VK_NULL_HANDLE,
                             !.transient = IF C.m_commandPool # VK_NULL_HANDLE THEN 0 ELSE @,
                             !.m_device = FALSE, !.m_initialized = FALSE],
                   TRUE, 0, "none", FALSE,
                   << VkCall("vkDeviceWaitIdle") >>
                   \o (IF C.m_commandBuffers # 0 /\ C.m_commandPool # VK_NULL_HANDLE
                       THEN << VkCall("vkFreeCommandBuffers") >> ELSE << >>)
                   \o (IF C.m_commandPool # VK_NULL_HANDLE
                       THEN << VkCall("vkDestroyCommandPool") >> ELSE << >>))

\* VulkanCommandBuffer::Initialize (lines 12-49) with CreateCommandPool and
\* AllocateInitialCommandBuffers; device: info.device is not null
CmdInitialize(C, D, device, count, outcome) ==
    LET C1 == [C EXCEPT !.m_device = TRUE]
        C2 == [C1 EXCEPT !.m_commandPool = 1]
        C3 == [C2 EXCEPT !.m_commandBuffers = count]
        create == << VkCall("vkCreateCommandPool") >>
        alloc  == IF count = 0 THEN << >> ELSE << VkCall("vkAllocateCommandBuffers") >>
    IN  IF C.m_initialized THEN CmdResult(C, FALSE, 0, "none", TRUE, << >>)
        ELSE IF ~device THEN CmdResult(C, FALSE, 0, "none", TRUE, << >>)
        ELSE IF outcome = "pool_fails"
        THEN CmdResult(C1, FALSE, 0, "none", TRUE, create)
        ELSE IF outcome = "allocate_fails" /\ count # 0
        THEN CmdResult(C2, FALSE, 0, "none", TRUE, create \o alloc)
        ELSE IF outcome = "resize_throws" /\ count # 0
        THEN LET c == CmdCleanup(C2, D)
             IN  CmdResult(c.C, FALSE, 0, "none", TRUE, create \o c.log)
        ELSE CmdResult([C3 EXCEPT !.m_initialized = TRUE], TRUE, 0, "none", FALSE,
                       create \o alloc)

\* VulkanCommandBuffer::FreeCommandBuffer (lines 128-134)
CmdFreeCommandBuffer(C, commandBuffer) ==
    IF ~C.m_initialized \/ ~C.m_device \/ commandBuffer = VK_NULL_HANDLE
    THEN CmdResult(C, TRUE, 0, "none", FALSE, << >>)
    ELSE CmdResult([C EXCEPT !.transient = Decrement(@)], TRUE, 0, "none", FALSE,
                   << VkCall("vkFreeCommandBuffers") >>)

\* VulkanCommandBuffer::SubmitCommandBuffers (lines 221-272) without the test of
\* the two counts
SubmitCommandBuffers_NoCountCheck(C, D, info, okSubmit) ==
    LET queue == IF info.queue = VK_NULL_HANDLE THEN D.graphicsQueue ELSE info.queue
    IN  IF ~C.m_initialized \/ ~C.m_device
        THEN CmdResult(C, FALSE, 0, "none", TRUE, << >>)
        ELSE IF info.commandBuffers = << >>
        THEN CmdResult(C, FALSE, 0, "none", TRUE, << >>)
        ELSE IF queue = VK_NULL_HANDLE
        THEN CmdResult(C, FALSE, 0, "none", TRUE, << >>)
        ELSE CmdResult(C, okSubmit, 0, "none", ~okSubmit, << VkQueueSubmit(queue, info) >>)

\* VulkanCommandBuffer::SubmitCommandBuffers (lines 221-272); okSubmit: what
\* vkQueueSubmit returns
SubmitCommandBuffers(C, D, info, okSubmit) ==
    LET queue == IF info.queue = VK_NULL_HANDLE THEN D.graphicsQueue ELSE info.queue
    IN  IF ~C.m_initialized \/ ~C.m_device
        THEN CmdResult(C, FALSE, 0, "none", TRUE, << >>)
        ELSE IF info.commandBuffers = << >>
        THEN CmdResult(C, FALSE, 0, "none", TRUE, << >>)
        ELSE IF queue = VK_NULL_HANDLE
        THEN CmdResult(C, FALSE, 0, "none", TRUE, << >>)
        ELSE IF Len(info.waitSemaphores) # Len(info.waitStages)
        THEN CmdResult(C, FALSE, 0, "none", TRUE, << >>)
        ELSE CmdResult(C, okSubmit, 0, "none", ~okSubmit, << VkQueueSubmit(queue, info) >>)

\* The handle vkAllocateCommandBuffers hands out
TransientCommandBuffer == 1

\* VulkanCommandBuffer::BeginSingleTimeCommands (lines 181-194) with
\* AllocateCommandBuffer (82-101) and BeginRecording (146-164)
CmdBeginSingleTimeCommands(C, st) ==
    LET C1 == [C EXCEPT !.transient = @ + 1]
        alloc == << VkCall("vkAllocateCommandBuffers") >>
        begin == << VkCall("vkBeginCommandBuffer") >>
    IN  IF ~C.m_initialized \/ ~C.m_device
        THEN CmdResult(C, FALSE, 0, "std", FALSE, << >>)
        ELSE IF st = "allocate_fails"
        THEN CmdResult(C, FALSE, 0, "std", FALSE, alloc)
        ELSE IF st = "begin_fails"
        THEN LET f == CmdFreeCommandBuffer(C1, TransientCommandBuffer)
             IN  CmdResult(f.C, FALSE, 0, "std", TRUE, alloc \o begin \o f.log)
        ELSE CmdResult(C1, TRUE, TransientCommandBuffer, "none", FALSE, alloc \o begin)

\* VulkanCommandBuffer::EndSingleTimeCommands (lines 196-219) with EndRecording
\* (166-179)
CmdEndSingleTimeCommands(C, D, commandBuffer, st) ==
    LET end == << VkCall("vkEndCommandBuffer") >>
        submitInfo == [NoSubmitInfo EXCEPT !.commandBuffers = << commandBuffer >>,
                                           !.queue = D.graphicsQueue]
        s == SubmitCommandBuffers(C, D, submitInfo, st # "submit_fails")
        f == CmdFreeCommandBuffer(C, commandBuffer)
    IN  IF ~C.m_initialized \/ ~C.m_device \/ commandBuffer = VK_NULL_HANDLE
        THEN CmdResult(C, FALSE, 0, "std", FALSE, << >>)
        ELSE IF st = "end_fails"
        THEN CmdResult(f.C, FALSE, 0, "std", TRUE, end \o f.log)
        ELSE IF ~s.ret
        THEN CmdResult(f.C, FALSE, 0, "std", TRUE, end \o s.log \o f.log)
        ELSE CmdResult(f.C, TRUE, 0, "none", FALSE,
                       end \o s.log \o << VkCall("vkQueueWaitIdle") >> \o f.log)

\* What a recording callback may be or do: no callable at all, return, raise a
\* std::exception, raise a value of another type
Callbacks == {"null", "returns", "throws_std", "throws_other"}

\* VulkanCommandBuffer::ExecuteImmediate (lines 274-290): the handler catches
\* const std::exception& only
ExecuteImmediate(C, D, recordingFunction, st) ==
    LET b == CmdBeginSingleTimeCommands(C, st)
        e == CmdEndSingleTimeCommands(b.C, D, b.commandBuffer, st)
    IN  IF recordingFunction = "null"
        THEN CmdResult(C, FALSE, 0, "none", TRUE, << >>)
        ELSE IF b.thrown = "std"
        THEN CmdResult(b.C, FALSE, 0, "none", TRUE, b.log)
        ELSE IF recordingFunction = "throws_std"
        THEN CmdResult(b.C, FALSE, 0, "none", TRUE, b.log)
        ELSE IF recordingFunction = "throws_other"
        THEN CmdResult(b.C, FALSE, 0, "other", FALSE, b.log)
        ELSE IF e.thrown = "std"
        THEN CmdResult(e.C, FALSE, 0, "none", TRUE, b.log \o e.log)
        ELSE CmdResult(e.C, TRUE, 0, "none", FALSE, b.log \o e.log)

(* ---------------- bring-up and teardown of the device context --------- *)
\* In the operators below E holds the objects of one engine: alive, what exists
\* on the GLFW / Vulkan side; log, the create, destroy and wait calls of the
\* running call in order; orphaned, what was still alive when an object it
\* depends on was destroyed; r, dev, cmdl, swap, rmgr, the fields of the
\* VulkanRenderer, its VulkanDevice, VulkanCommandBuffer and VulkanSwapchain, and
\* of the ResourceManager. An operator that returns a value yields [E, ret].
DeviceChildren ==
    {"allocator", "commandPool", "commandBuffers", "swapchain", "imageViews", "syncObjects"}

Dependents(obj) ==
    IF obj = "device" THEN DeviceChildren
    ELSE IF obj = "instance" THEN {"device", "surface", "debugMessenger"}
    ELSE {}

VulkanDeviceObject ==
    [ m_instance |-> FALSE, m_debugMessenger |-> FALSE, m_surface |-> FALSE,
      m_physicalDevice |-> FALSE, m_device |-> FALSE, m_enableValidation |-> FALSE ]

\* unique_ptr members: TRUE when they hold an object
VulkanRendererObject ==
    [ m_initialized |-> FALSE, m_window |-> FALSE, m_device |-> FALSE,
      m_commandBuffer |-> FALSE, m_swapchain |-> FALSE ]

LifeSwapchainObject ==
    [ m_device |-> FALSE, m_swapchain |-> FALSE, m_swapchainImageViews |-> FALSE,
      syncObjects |-> FALSE ]

\* A ResourceManager constructed on the engine's renderer
LifeResourceManagerObject ==
    [ m_initialized |-> FALSE, m_allocator |-> FALSE, m_renderer |-> TRUE ]

EngineObjects ==
    [ alive |-> {}, log |-> << >>, orphaned |-> {},
      r |-> VulkanRendererObject, dev |-> VulkanDeviceObject,
      cmdl |-> CommandLayerObject, swap |-> LifeSwapchainObject,
      rmgr |-> LifeResourceManagerObject ]

\* A public call starts with an empty log
Entering(E) == [E EXCEPT !.log = << >>, !.orphaned = {}]

Emit(E, api) == [E EXCEPT !.log = Append(@, api)]

Created(E, obj, api) == [E EXCEPT !.alive = @ \cup {obj}, !.log = Append(@, api)]

Destroyed(E, obj, api) ==
    [E EXCEPT !.alive = @ \ {obj}, !.log = Append(@, api),
              !.orphaned = @ \cup (E.alive \cap Dependents(obj))]

Returning(E, ret) == [E |-> E, ret |-> ret]

\* F runs on what the call before it left
Then(E, F(_)) == CHOOSE after \in { F(before) : before \in {E} } : TRUE

DestroyDevice(X) ==
    IF X.dev.m_device
    THEN [Destroyed(X, "device", "vkDestroyDevice") EXCEPT !.dev.m_device = FALSE]
    ELSE X

DestroySurface(X) ==
    IF X.dev.m_surface
    THEN [Destroyed(X, "surface", "vkDestroySurfaceKHR") EXCEPT !.dev.m_surface = FALSE]
    ELSE X

DestroyDebugMessenger(X) ==
    IF X.dev.m_enableValidation /\ X.dev.m_debugMessenger
    THEN [Destroyed(X, "debugMessenger", "vkDestroyDebugUtilsMessengerEXT")
            EXCEPT !.dev.m_debugMessenger = FALSE]
    ELSE X

DestroyInstance(X) ==
    IF X.dev.m_instance
    THEN [Destroyed(X, "instance", "vkDestroyInstance") EXCEPT !.dev.m_instance = FALSE]
    ELSE X

\* VulkanDevice::Cleanup (VulkanDevice.cpp:54-77)
VulkanDevice_Cleanup(E) ==
    Then(Then(Then(Then(E, DestroyDevice), DestroySurface), DestroyDebugMessenger),
         DestroyInstance)

\* Where VulkanDevice::Initialize may stop: validation layers missing, one of the
\* five steps returning false, or a std::exception inside PickPhysicalDevice
DeviceOutcomes ==
    {"ok", "layers_unsupported", "instance_fails", "messenger_fails", "surface_fails",
     "pick_fails", "pick_throws", "device_fails"}

\* VulkanDevice::Initialize (VulkanDevice.cpp:14-52) with its five steps
\* (79-265); window: info.window is not null. Only the handler of line 47 calls
\* Cleanup.
VulkanDevice_Initialize(E, enableValidation, window, how) ==
    LET Steps(X) ==
          LET E0 == [X EXCEPT !.dev.m_enableValidation = enableValidation]
              E1 == [Created(E0, "instance", "vkCreateInstance") EXCEPT !.dev.m_instance = TRUE]
              E2 == IF enableValidation
                    THEN [Created(E1, "debugMessenger", "vkCreateDebugUtilsMessengerEXT")
                            EXCEPT !.dev.m_debugMessenger = TRUE]
                    ELSE E1
              E3 == [Created(E2, "surface", "glfwCreateWindowSurface")
                       EXCEPT !.dev.m_surface = TRUE]
              E4 == [E3 EXCEPT !.dev.m_physicalDevice = TRUE]
              E5 == [Created(E4, "device", "vkCreateDevice") EXCEPT !.dev.m_device = TRUE]
          IN  IF enableValidation /\ how = "layers_unsupported" THEN Returning(E0, FALSE)
              ELSE IF how = "instance_fails"
              THEN Returning(Emit(E0, "vkCreateInstance"), FALSE)
              ELSE IF enableValidation /\ how = "messenger_fails"
              THEN Returning(Emit(E1, "vkCreateDebugUtilsMessengerEXT"), FALSE)
              ELSE IF ~window THEN Returning(E2, FALSE)
              ELSE IF how = "surface_fails"
              THEN Returning(Emit(E2, "glfwCreateWindowSurface"), FALSE)
              ELSE IF how = "pick_fails" THEN Returning(E3, FALSE)
              ELSE IF how = "pick_throws" THEN Returning(VulkanDevice_Cleanup(E3), FALSE)
              ELSE IF how = "device_fails" THEN Returning(Emit(E4, "vkCreateDevice"), FALSE)
              ELSE Returning(E5, TRUE)
    IN  Then(E, Steps)

\* The VulkanDevice the command layer and the swapchain hold a pointer to
DeviceOf(E) ==
    [ device |-> IF E.dev.m_device THEN 1 ELSE VK_NULL_HANDLE,
      graphicsQueue |-> IF E.dev.m_device THEN GraphicsQueue ELSE VK_NULL_HANDLE ]

Apis(log) == [i \in DOMAIN log |-> log[i].api]

\* The command layer's call r made on the engine's layer
WithCommandLayer(E, r) ==
    LET gone == (IF "vkDestroyCommandPool" \in Range(Apis(r.log))
                 THEN {"commandPool", "commandBuffers"} ELSE {})
                \cup (IF E.cmdl.m_commandBuffers # 0 /\ r.C.m_commandBuffers = 0
                      THEN {"commandBuffers"} ELSE {})
        made == (IF r.C.m_commandPool # VK_NULL_HANDLE THEN {"commandPool"} ELSE {})
                \cup (IF r.C.m_commandBuffers # 0 THEN {"commandBuffers"} ELSE {})
    IN  [E EXCEPT !.cmdl = r.C, !.log = @ \o Apis(r.log),
                  !.alive = (@ \ gone) \cup made]

\* VulkanCommandBuffer::Cleanup on the engine's layer
CleanupCommandLayer(X) == WithCommandLayer(X, CmdCleanup(X.cmdl, DeviceOf(X)))

\* VulkanRenderer::CreateCommandBuffers (VulkanRenderer.cpp:241-260); on failure
\* the reset runs ~VulkanCommandBuffer, which calls Cleanup
CreateCommandBuffers(E, how) ==
    LET Make(X) ==
          WithCommandLayer([X EXCEPT !.r.m_commandBuffer = TRUE, !.cmdl = CommandLayerObject],
                           CmdInitialize(CommandLayerObject, DeviceOf(X), TRUE, 1, how))
        Finish(X) ==
          IF X.cmdl.m_initialized THEN Returning(X, TRUE)
          ELSE Returning([CleanupCommandLayer(X)
                            EXCEPT !.r.m_commandBuffer = FALSE, !.cmdl = CommandLayerObject],
                         FALSE)
    IN  Then(Then(E, Make), Finish)

DestroySyncObjects(X) ==
    IF X.swap.syncObjects
    THEN [Destroyed(X, "syncObjects", "vkDestroyFence") EXCEPT !.swap.syncObjects = FALSE]
    ELSE X

DestroyImageViews(X) ==
    IF X.swap.m_swapchainImageViews
    THEN [Destroyed(X, "imageViews", "vkDestroyImageView")
            EXCEPT !.swap.m_swapchainImageViews = FALSE]
    ELSE X

\* variant: the swapchain is destroyed but its handle is not set to null
DestroySwapchain_KeepHandle(X) ==
    IF X.swap.m_swapchain THEN Destroyed(X, "swapchain", "vkDestroySwapchainKHR") ELSE X

DestroySwapchain(X) ==
    IF X.swap.m_swapchain
    THEN [Destroyed(X, "swapchain", "vkDestroySwapchainKHR") EXCEPT !.swap.m_swapchain = FALSE]
    ELSE X

\* VulkanSwapchain::Cleanup (VulkanSwapchain.cpp:55-65)
VulkanSwapchain_Cleanup(E) ==
    LET Steps(X) ==
          IF ~X.swap.m_device \/ ~X.dev.m_device THEN X
          ELSE Then(Then(Then(Emit(X, "vkDeviceWaitIdle"), DestroySyncObjects),
                         DestroyImageViews), DestroySwapchain)
    IN  Then(E, Steps)

SwapchainOutcomes == {"ok", "swapchain_fails", "views_fail", "sync_fails"}

\* VulkanRenderer::CreateSwapchain (VulkanRenderer.cpp:262-280) with
\* VulkanSwapchain::Initialize (VulkanSwapchain.cpp:14-52); a failing
\* CreateImageViews leaves the views it made; on failure the reset runs
\* ~VulkanSwapchain, which calls Cleanup
CreateSwapchainObject(E, how) ==
    LET Steps(X) ==
          LET E0 == [X EXCEPT !.r.m_swapchain = TRUE,
                              !.swap = [LifeSwapchainObject EXCEPT !.m_device = TRUE]]
              E1 == [Created(E0, "swapchain", "vkCreateSwapchainKHR")
                       EXCEPT !.swap.m_swapchain = TRUE]
              E2 == [Created(E1, "imageViews", "vkCreateImageView")
                       EXCEPT !.swap.m_swapchainImageViews = TRUE]
              E3 == [Created(E2, "syncObjects", "vkCreateFence")
                       EXCEPT !.swap.syncObjects = TRUE]
              failed == IF how = "swapchain_fails" THEN Emit(E0, "vkCreateSwapchainKHR")
                        ELSE IF how = "views_fail" THEN E2
                        ELSE Emit(E2, "vkCreateSemaphore")
          IN  IF how = "ok" THEN Returning(E3, TRUE)
              ELSE Returning([VulkanSwapchain_Cleanup(failed)
                                EXCEPT !.r.m_swapchain = FALSE, !.swap = LifeSwapchainObject],
                             FALSE)
    IN  Then(E, Steps)

\* Where VulkanRenderer::Initialize may stop
RendererOutcomes ==
    {[stage |-> "none", how |-> "ok"], [stage |-> "glfwInit", how |-> "fails"],
     [stage |-> "window", how |-> "fails"], [stage |-> "exception", how |-> "throws"]}
    \cup {[stage |-> "device", how |-> h] :
             h \in {"instance_fails", "surface_fails", "pick_fails", "pick_throws", "device_fails"}}
    \cup {[stage |-> "command", how |-> h] : h \in CmdInitializeOutcomes \ {"ok"}}
    \cup {[stage |-> "swapchain", how |-> h] : h \in SwapchainOutcomes \ {"ok"}}

How(out, stage) == IF out.stage = stage THEN out.how ELSE "ok"

\* The steps of VulkanRenderer::Shutdown; each reset runs the member's
\* destructor, which calls its Cleanup once more
WaitForDevice(X) ==
    IF X.r.m_device /\ X.dev.m_device THEN Emit(X, "vkDeviceWaitIdle") ELSE X

ShutdownCommandBuffer(X) ==
    IF X.r.m_commandBuffer
    THEN [Then(Then(X, CleanupCommandLayer), CleanupCommandLayer)
            EXCEPT !.r.m_commandBuffer = FALSE, !.cmdl = CommandLayerObject]
    ELSE X

ShutdownSwapchain(X) ==
    IF X.r.m_swapchain
    THEN [Then(Then(X, VulkanSwapchain_Cleanup), VulkanSwapchain_Cleanup)
            EXCEPT !.r.m_swapchain = FALSE, !.swap = LifeSwapchainObject]
    ELSE X

ShutdownDevice(X) ==
    IF X.r.m_device
    THEN [Then(Then(X, VulkanDevice_Cleanup), VulkanDevice_Cleanup)
            EXCEPT !.r.m_device = FALSE, !.dev = VulkanDeviceObject]
    ELSE X

ShutdownWindow(X) ==
    LET W == IF X.r.m_window
             THEN [Destroyed(X, "window", "glfwDestroyWindow") EXCEPT !.r.m_window = FALSE]
             ELSE X
    IN  [Destroyed(W, "glfw", "glfwTerminate") EXCEPT !.r.m_initialized = FALSE]

\* Variant: the device context goes before the swapchain
VulkanRenderer_Shutdown_DeviceFirst(E) ==
    LET Steps(X) ==
          IF ~X.r.m_initialized THEN X
          ELSE Then(Then(Then(Then(Then(X, WaitForDevice), ShutdownCommandBuffer),
                              ShutdownDevice), ShutdownSwapchain), ShutdownWindow)
    IN  Then(E, Steps)

\* VulkanRenderer::Shutdown (VulkanRenderer.cpp:116-155)
VulkanRenderer_Shutdown(E) ==
    LET Steps(X) ==
          IF ~X.r.m_initialized THEN X
          ELSE Then(Then(Then(Then(Then(X, WaitForDevice), ShutdownCommandBuffer),
                              ShutdownSwapchain), ShutdownDevice), ShutdownWindow)
    IN  Then(E, Steps)

\* VulkanRenderer::Initialize (VulkanRenderer.cpp:21-97) on a renderer that is
\* initialized or has never been brought up. The exception is a std::bad_alloc
\* of the make_unique at line 243; its handler calls Shutdown.
VulkanRenderer_Initialize(E, out) ==
    LET AfterSwapchain(w) ==
          IF ~w.ret THEN w ELSE Returning([w.E EXCEPT !.r.m_initialized = TRUE], TRUE)
        AfterCommandBuffers(c) ==
          IF ~c.ret THEN c
          ELSE Then(CreateSwapchainObject(c.E, How(out, "swapchain")), AfterSwapchain)
        AfterDevice(d) ==
          IF ~d.ret THEN d
          ELSE IF out.stage = "exception" THEN Returning(VulkanRenderer_Shutdown(d.E), FALSE)
          ELSE Then(CreateCommandBuffers(d.E, How(out, "command")), AfterCommandBuffers)
        Steps(X) ==
          LET E1 == Created(X, "glfw", "glfwInit")
              E2 == [Created(E1, "window", "glfwCreateWindow") EXCEPT !.r.m_window = TRUE]
          IN  IF X.r.m_initialized THEN Returning(X, TRUE)
              ELSE IF out.stage = "glfwInit" THEN Returning(Emit(X, "glfwInit"), FALSE)
              ELSE IF out.stage = "window"
              THEN Returning(Destroyed(Emit(E1, "glfwCreateWindow"), "glfw", "glfwTerminate"),
                             FALSE)
              ELSE Then(VulkanDevice_Initialize(
                           [E2 EXCEPT !.r.m_device = TRUE, !.dev = VulkanDeviceObject],
                           FALSE, TRUE, How(out, "device")),
                        AfterDevice)
    IN  Then(E, Steps)

\* ~VulkanRenderer (VulkanRenderer.cpp:15-19), then the members' destructors in
\* reverse order of declaration (VulkanRenderer.h:64-67): command layer,
\* swapchain, device. The window is a raw pointer.
VulkanRenderer_Destructor(E) ==
    LET Command(X) == IF X.r.m_commandBuffer THEN CleanupCommandLayer(X) ELSE X
        Swapchain(X) == IF X.r.m_swapchain THEN VulkanSwapchain_Cleanup(X) ELSE X
        Device(X) == IF X.r.m_device THEN VulkanDevice_Cleanup(X) ELSE X
        Members(X) == [X EXCEPT !.r = VulkanRendererObject, !.dev = VulkanDeviceObject,
                                !.cmdl = CommandLayerObject, !.swap = LifeSwapchainObject]
    IN  Then(Then(Then(Then(Then(E, VulkanRenderer_Shutdown), Command), Swapchain), Device),
             Members)

\* ResourceManager::Initialize with CreateAllocator (ResourceManager.cpp:17-87)
ResourceManager_CreateAllocator(E, okAllocator) ==
    IF E.rmgr.m_initialized \/ ~E.rmgr.m_renderer THEN Returning(E, FALSE)
    ELSE IF ~okAllocator THEN Returning(Emit(E, "vmaCreateAllocator"), FALSE)
    ELSE Returning([Created(E, "allocator", "vmaCreateAllocator")
                      EXCEPT !.rmgr.m_initialized = TRUE, !.rmgr.m_allocator = TRUE],
                   TRUE)

\* ResourceManager::Shutdown, which is Cleanup (ResourceManager.cpp:42-70)
ResourceManager_Shutdown(E) ==
    LET Steps(X) ==
          IF ~X.rmgr.m_initialized THEN X
          ELSE [(IF X.rmgr.m_allocator
                 THEN Destroyed(X, "allocator", "vmaDestroyAllocator") ELSE X)
                  EXCEPT !.rmgr = [m_initialized |-> FALSE, m_allocator |-> FALSE,
                                   m_renderer |-> FALSE]]
    IN  Then(E, Steps)

\* ~ResourceManager (ResourceManager.cpp:11-15); the engine constructs a new one
\* at its next bring-up
ResourceManager_Destructor(E) ==
    [ResourceManager_Shutdown(E) EXCEPT !.rmgr = LifeResourceManagerObject]

\* Engine::ShutdownModules (Engine.cpp:278-335): the ResourceManager, then the
\* renderer; each reset runs the destructor
Engine_ShutdownModules(E) ==
    Then(Then(Then(Then(E, ResourceManager_Shutdown), ResourceManager_Destructor),
              VulkanRenderer_Shutdown), VulkanRenderer_Destructor)

\* ~Engine of an engine whose Initialize failed: Shutdown returns at once
\* (Engine.cpp:78-81) and the members go in reverse order of declaration
\* (Engine.h:94-95): the ResourceManager, then the renderer
Engine_Destructor(E) ==
    Then(Then(E, ResourceManager_Destructor), VulkanRenderer_Destructor)

\* `cbLast` before any call
NoCmdCallYet ==
    [ op |-> "none", info |-> NoSubmitInfo, recordingFunction |-> "none",
      ret |-> TRUE, thrown |-> "none", reported |-> FALSE, log |-> << >> ]

(* ------------------------------ state --------------------------------- *)
VARIABLES
    sc,          \* the VulkanSwapchain object (SwapchainObject fields)
    vk,          \* device-side state (DeviceState fields)
    fb,          \* the window's framebuffer size, owned by the window system
    events,      \* window-system events queued and not yet processed
    renderer,    \* the VulkanRenderer object
    pc,          \* where the control thread is
    ret,         \* which caller the running swapchain method returns to
    loc,         \* RecreateSwapchain's locals width, height; waited: its loop body ran
    vkResult,    \* VkResult of the last vkAcquireNextImageKHR / vkQueuePresentKHR
    retval,      \* value returned by the last VulkanSwapchain method
    op,          \* the VulkanSwapchain method that vkResult and retval are about
    frameNo,     \* number of BeginFrame calls made so far
    acquired,    \* the BeginFrame of the current frame acquired an image
    calls,       \* number of direct VulkanSwapchain calls made so far
    rm,          \* the ResourceManager object
    vma,         \* buffers, images and image views alive in the allocator / device
    cmd,         \* number of command buffers allocated from the command pool
    client,      \* the AllocatedBuffer / AllocatedImage values the callers hold
    rmCalls,     \* number of ResourceManager calls made so far
    last,        \* the last ResourceManager call: what it returned and did
    tex,         \* the last texture upload: what it returned and did to the image
    uploads,     \* number of texture uploads made so far
    cb,          \* the VulkanCommandBuffer object
    cbLast,      \* the last call on the command layer: arguments, result, Vulkan calls
    cbCalls,     \* number of calls made on the command layer so far
    engine,      \* the objects of one engine (EngineObjects fields)
    lifeLast,    \* the last bring-up or teardown call and what it returned
    lifeCalls,   \* number of bring-up and teardown calls made so far
    app          \* a function applied on its own: its inputs and, once applied, its result

vars == << sc, vk, fb, events, renderer, pc, ret, loc, vkResult, retval, op,
           frameNo, acquired, calls, rm, vma, cmd, client, rmCalls, last, tex, uploads,
           cb, cbLast, cbCalls, engine, lifeLast, lifeCalls, app >>

\* The variables of the swapchain and renderer, and those of the ResourceManager
swapVars == << sc, vk, fb, events, renderer, pc, ret, loc, vkResult, retval, op,
               frameNo, acquired, calls >>

rmVars == << rm, vma, cmd, client, rmCalls, last >>

\* The variables of the texture upload paths
texVars == << tex, uploads >>

\* The variables of the command layer
cbVars == << cb, cbLast, cbCalls >>

\* The variables of bring-up and teardown
lifeVars == << engine, lifeLast, lifeCalls >>

\* The variable of a function applied on its own
appVars == << app >>

\* What a swapchain or renderer step leaves alone, and what a ResourceManager
\* call leaves alone
notSwapVars == << rmVars, texVars, cbVars, lifeVars, appVars >>

notRmVars == << swapVars, texVars, cbVars, lifeVars, appVars >>

\* What a texture upload leaves alone besides the ResourceManager's counters,
\* and what a call on the command layer leaves alone
notTexVars == << swapVars, cbVars, lifeVars, appVars >>

notCbVars == << swapVars, rmVars, texVars, lifeVars, appVars >>

\* What a bring-up or teardown call leaves alone
notLifeVars == << swapVars, rmVars, texVars, cbVars, appVars >>

\* What the application of a function leaves alone
notAppVars == << swapVars, rmVars, texVars, cbVars, lifeVars >>

Cur == [sc |-> sc, vk |-> vk]

\* A VulkanRenderer after its constructor
RendererObject ==
    [ m_initialized        |-> FALSE,
      m_swapchain          |-> FALSE,     \* the unique_ptr holds an object
      m_currentImageIndex  |-> 0,
      m_framebufferResized |-> FALSE ]

IsZero(size) == size.width = 0 \/ size.height = 0

\* RecreateSwapchain's locals outside a call
NoLocals == [width |-> 0, height |-> 0, waited |-> FALSE]

\* The sync vectors do not hold a usable object at index m_currentFrame
SyncMissing(S) ==
    \/ Len(S.sc.m_inFlightFences) <= S.sc.m_currentFrame
    \/ Len(S.sc.m_imageAvailableSemaphores) <= S.sc.m_currentFrame
    \/ Len(S.sc.m_renderFinishedSemaphores) <= S.sc.m_currentFrame
    \/ S.sc.m_inFlightFences[S.sc.m_currentFrame + 1] = VK_NULL_HANDLE

\* glfw dispatches queued events; the framebuffer-size callback installed by
\* VulkanRenderer::Initialize sets m_framebufferResized
DispatchEvents(r, ev) ==
    IF "resize" \in ev /\ r.m_initialized
    THEN [r EXCEPT !.m_framebufferResized = TRUE]
    ELSE r

\* Each interface is driven on objects of its own: a run constructs the
\* objects of the interface it drives and no other, and holds a null in the
\* place of each object it does not construct
NotConstructed == 0

\* A VulkanSwapchain, its device and window, and the VulkanRenderer over them
InitSwapSide ==
    /\ sc = SwapchainObject
    /\ vk = DeviceState
    /\ fb = [width |-> MaxDim, height |-> MaxDim]
    /\ events = {}
    /\ renderer = RendererObject
    /\ pc = "idle"
    /\ ret = "none"
    /\ loc = NoLocals
    /\ vkResult = NoCall
    /\ retval = FALSE
    /\ op = "none"
    /\ frameNo = 0
    /\ acquired = FALSE
    /\ calls = 0

NoSwapSide ==
    /\ sc = NotConstructed
    /\ vk = NotConstructed
    /\ fb = NotConstructed
    /\ events = NotConstructed
    /\ renderer = NotConstructed
    /\ pc = NotConstructed
    /\ ret = NotConstructed
    /\ loc = NotConstructed
    /\ vkResult = NotConstructed
    /\ retval = NotConstructed
    /\ op = NotConstructed
    /\ frameNo = NotConstructed
    /\ acquired = NotConstructed
    /\ calls = NotConstructed

\* A ResourceManager and the allocator library's state
InitRmSide ==
    /\ rm = ResourceManagerObject
    /\ vma = AllocatorState
    /\ cmd = 0
    /\ client = [buffers |-> {}, images |-> {}]
    /\ rmCalls = 0
    /\ last = NoCallYet

NoRmSide ==
    /\ rm = NotConstructed
    /\ vma = NotConstructed
    /\ cmd = NotConstructed
    /\ client = NotConstructed
    /\ rmCalls = NotConstructed
    /\ last = NotConstructed

\* The texture upload paths before any upload
InitTexSide ==
    /\ tex = NoUpload
    /\ uploads = 0

NoTexSide ==
    /\ tex = NotConstructed
    /\ uploads = NotConstructed

\* A VulkanCommandBuffer
InitCbSide ==
    /\ cb = CommandLayerObject
    /\ cbLast = NoCmdCallYet
    /\ cbCalls = 0

NoCbSide ==
    /\ cb = NotConstructed
    /\ cbLast = NotConstructed
    /\ cbCalls = NotConstructed

\* An Engine and the objects it owns
InitLifeSide ==
    /\ engine = EngineObjects
    /\ lifeLast = [op |-> "none", ret |-> TRUE]
    /\ lifeCalls = 0

NoLifeSide ==
    /\ engine = NotConstructed
    /\ lifeLast = NotConstructed
    /\ lifeCalls = NotConstructed

\* No function is applied on its own
NoAppSide == app = NotConstructed

\* No object is constructed: the inputs of a function applied on its own are
\* all there is
NoObjects == NoSwapSide /\ NoRmSide /\ NoTexSide /\ NoCbSide /\ NoLifeSide

(* ------------------------- environment actions ------------------------ *)
\* The GPU finishes one submitted batch and signals its fence
GpuComplete ==
    /\ \E w \in vk.inFlight :
          vk' = [vk EXCEPT !.inFlight = @ \ {w},
                           !.signaled = @ \cup ({w.fence} \cap vk.live)]
    /\ UNCHANGED << sc, fb, events, renderer, pc, ret, loc, vkResult, retval, op,
                    frameNo, acquired, calls >>
    /\ UNCHANGED notSwapVars

\* The window system changes the framebuffer size (0 = minimized) at any moment
WindowResize ==
    /\ \E size \in FramebufferSizes :
          /\ size # fb
          /\ fb' = size
    /\ events' = events \cup {"resize"}
    /\ UNCHANGED << sc, vk, renderer, pc, ret, loc, vkResult, retval, op,
                    frameNo, acquired, calls >>
    /\ UNCHANGED notSwapVars

(* ---------------- RecreateSwapchain, step by step --------------------- *)
\* Continue in the caller once a swapchain method has returned `r`
ReturnTo(r, name) ==
    /\ retval' = r
    /\ op' = name
    /\ pc' = IF ret = "BeginFrame" THEN (IF r THEN "acquire" ELSE "body") ELSE "idle"
    /\ ret' = IF ret = "BeginFrame" /\ r THEN ret ELSE "none"

\* lines 130-137: the guard, the first glfwGetFramebufferSize, the loop test
RecreateEnter ==
    /\ pc = "rc_enter"
    /\ IF ~sc.m_device \/ ~sc.m_window
       THEN /\ ReturnTo(FALSE, "RecreateSwapchain")
            /\ vkResult' = NoCall
            /\ loc' = loc
       ELSE /\ loc' = [width |-> fb.width, height |-> fb.height, waited |-> FALSE]
            /\ pc' = IF IsZero(fb) THEN "rc_get" ELSE "rc_idle"
            /\ UNCHANGED << ret, retval, op, vkResult >>
    /\ UNCHANGED << sc, vk, fb, events, renderer, frameNo, acquired, calls >>
    /\ UNCHANGED notSwapVars

\* line 138: glfwGetFramebufferSize inside the loop
RecreateGetSize ==
    /\ pc = "rc_get"
    /\ loc' = [width |-> fb.width, height |-> fb.height, waited |-> TRUE]
    /\ pc' = "rc_wait"
    /\ UNCHANGED << sc, vk, fb, events, renderer, ret, vkResult, retval, op,
                    frameNo, acquired, calls >>
    /\ UNCHANGED notSwapVars

\* line 139 and the loop test of line 137: glfwWaitEvents sleeps until an event
\* is queued, dispatches what is queued, then the loop tests the sizes read before
RecreateWaitEvents ==
    /\ pc = "rc_wait"
    /\ events # {}
    /\ renderer' = DispatchEvents(renderer, events)
    /\ events' = {}
    /\ pc' = IF IsZero(loc) THEN "rc_get" ELSE "rc_idle"
    /\ UNCHANGED << sc, vk, fb, ret, loc, vkResult, retval, op, frameNo, acquired, calls >>
    /\ UNCHANGED notSwapVars

\* lines 143-164: vkDeviceWaitIdle has returned (nothing in flight), then
\* CleanupSwapchain, CreateSwapchain, CreateImageViews
RecreateRebuildStep ==
    /\ pc = "rc_idle"
    /\ vk.inFlight = {}
    /\ \E o \in RebuildOutcomes :
        \E capabilities \in CapabilitiesIf(o.okSwap, fb) :
          LET r == RecreateRebuild(Cur, capabilities, fb, o.okSwap, o.failView)
          IN  /\ sc' = r.S.sc
              /\ vk' = r.S.vk
              /\ ReturnTo(r.ret, "RecreateSwapchain")
    /\ vkResult' = NoCall
    /\ loc' = NoLocals
    /\ UNCHANGED << fb, events, renderer, frameNo, acquired, calls >>
    /\ UNCHANGED notSwapVars

(* ---------------------- AcquireNextImage as a step -------------------- *)
\* lines 67-96. The step is taken once vkWaitForFences can return. Indexing a
\* sync vector that holds no object for the slot is undefined: pc = "ub".
AcquireStep ==
    /\ pc = "acquire"
    /\ IF AcquireEarlyOut(Cur)
       THEN /\ ReturnTo(FALSE, "AcquireNextImage")
            /\ vkResult' = NoCall
            /\ UNCHANGED << sc, vk, renderer, acquired >>
       ELSE IF SyncMissing(Cur)
       THEN /\ pc' = "ub"
            /\ UNCHANGED << sc, vk, renderer, acquired, ret, retval, op, vkResult >>
       ELSE /\ FenceWaitDone(Cur)
            /\ \E result \in VkResults, index \in 0..(Len(sc.m_swapchainImages) - 1) :
                  LET r == AcquireNextImage(Cur, result, index, renderer.m_currentImageIndex)
                  IN  /\ sc' = r.S.sc
                      /\ vk' = r.S.vk
                      /\ renderer' = IF ret = "BeginFrame"
                                     THEN [renderer EXCEPT !.m_currentImageIndex = r.img]
                                     ELSE renderer
                      /\ acquired' = r.ret
                      /\ vkResult' = r.vkResult
                      /\ retval' = r.ret
                      /\ op' = "AcquireNextImage"
                      /\ pc' = IF ret = "BeginFrame" THEN "body" ELSE "idle"
                      /\ ret' = "none"
    /\ UNCHANGED << fb, events, loc, frameNo, calls >>
    /\ UNCHANGED notSwapVars

(* --------------------------- VulkanRenderer --------------------------- *)
\* VulkanRenderer::Initialize, its swapchain bring-up (CreateSwapchain, lines
\* 263-280): a new VulkanSwapchain is initialized with the renderer's device and
\* window and no preferred size; on failure the object is destroyed again (its
\* destructor runs Cleanup). On success the resize callback is installed.
RendererInitialize ==
    /\ pc = "idle"
    /\ ~renderer.m_initialized
    /\ vk.inFlight = {}
    /\ \E capabilities \in SurfaceCapabilities(fb), o \in CreateOutcomes :
          LET info == [device |-> TRUE, window |-> TRUE,
                       preferredWidth |-> 0, preferredHeight |-> 0]
              r == Initialize([sc |-> SwapchainObject, vk |-> vk], info,
                              capabilities, fb, o.okSwap, o.failView, o.okSync)
          IN  IF r.ret
              THEN /\ sc' = r.S.sc
                   /\ vk' = r.S.vk
                   /\ renderer' = [renderer EXCEPT !.m_initialized = TRUE,
                                                   !.m_swapchain = TRUE]
              ELSE /\ sc' = SwapchainObject
                   /\ vk' = Cleanup(r.S).vk
                   /\ renderer' = [renderer EXCEPT !.m_swapchain = FALSE]
    /\ UNCHANGED << fb, events, pc, ret, loc, vkResult, retval, op, frameNo, acquired, calls >>
    /\ UNCHANGED notSwapVars

\* Variant: BeginFrame looks at the resize flag only
NeedsRecreate_ResizeOnly(S, r) == r.m_framebufferResized

\* The recreation test at the head of BeginFrame (line 163)
NeedsRecreate(S, r) == S.sc.m_outOfDate \/ r.m_framebufferResized

\* VulkanRenderer::BeginFrame up to its first call into the swapchain
BeginFrame ==
    /\ pc = "idle"
    /\ frameNo < MaxFrames
    /\ frameNo' = frameNo + 1
    /\ acquired' = FALSE
    /\ IF ~renderer.m_initialized \/ ~renderer.m_swapchain
       THEN /\ pc' = "body"
            /\ UNCHANGED << renderer, ret >>
       ELSE IF NeedsRecreate(Cur, renderer)
       THEN /\ renderer' = [renderer EXCEPT !.m_framebufferResized = FALSE]
            /\ pc' = "rc_enter"
            /\ ret' = "BeginFrame"
       ELSE /\ pc' = "acquire"
            /\ ret' = "BeginFrame"
            /\ UNCHANGED renderer
    /\ UNCHANGED << sc, vk, fb, events, loc, vkResult, retval, op, calls >>
    /\ UNCHANGED notSwapVars

\* The caller of the frame loop, between BeginFrame and EndFrame: it submits the
\* frame's work with the current slot's in-flight fence
CallerSubmit ==
    /\ pc = "body"
    /\ acquired
    /\ vk' = [vk EXCEPT !.inFlight = @ \cup {[frame |-> frameNo, fence |-> CurrentFence(Cur)]}]
    /\ pc' = "end"
    /\ UNCHANGED << sc, fb, events, renderer, ret, loc, vkResult, retval, op,
                    frameNo, acquired, calls >>
    /\ UNCHANGED notSwapVars

\* ... and has nothing to submit when BeginFrame acquired no image
CallerSkip ==
    /\ pc = "body"
    /\ ~acquired
    /\ pc' = "end"
    /\ UNCHANGED << sc, vk, fb, events, renderer, ret, loc, vkResult, retval, op,
                    frameNo, acquired, calls >>
    /\ UNCHANGED notSwapVars

\* VulkanRenderer::EndFrame (lines 178-191)
EndFrame ==
    /\ pc = "end"
    /\ IF ~renderer.m_initialized \/ ~renderer.m_swapchain
       THEN UNCHANGED << sc, vk, vkResult, retval, op >>
       ELSE \E result \in VkResults :
              LET r  == PresentImage(Cur, renderer.m_currentImageIndex, result)
                  S1 == IF r.ret THEN r.S ELSE MarkOutOfDate(r.S)
                  S2 == AdvanceFrame(S1)
              IN  /\ sc' = S2.sc
                  /\ vk' = S2.vk
                  /\ vkResult' = r.vkResult
                  /\ retval' = r.ret
                  /\ op' = "PresentImage"
    /\ pc' = "idle"
    /\ UNCHANGED << fb, events, renderer, ret, loc, frameNo, acquired, calls >>
    /\ UNCHANGED notSwapVars

\* VulkanRenderer::Update: glfwPollEvents dispatches the queued events
PollEvents ==
    /\ pc = "idle"
    /\ renderer.m_initialized
    /\ events # {}
    /\ renderer' = DispatchEvents(renderer, events)
    /\ events' = {}
    /\ UNCHANGED << sc, vk, fb, pc, ret, loc, vkResult, retval, op, frameNo, acquired, calls >>
    /\ UNCHANGED notSwapVars

\* VulkanRenderer::OnWindowResize, also the tail of ApplyGraphicsSettings
OnWindowResize ==
    /\ pc = "idle"
    /\ renderer.m_initialized
    /\ ~renderer.m_framebufferResized
    /\ renderer' = [renderer EXCEPT !.m_framebufferResized = TRUE]
    /\ UNCHANGED << sc, vk, fb, events, pc, ret, loc, vkResult, retval, op,
                    frameNo, acquired, calls >>
    /\ UNCHANGED notSwapVars

(* --------------------- the frame loop specification ------------------- *)
Init == InitSwapSide /\ NoRmSide /\ NoTexSide /\ NoCbSide /\ NoLifeSide /\ NoAppSide

Next ==
    \/ RendererInitialize
    \/ BeginFrame
    \/ RecreateEnter
    \/ RecreateGetSize
    \/ RecreateWaitEvents
    \/ RecreateRebuildStep
    \/ AcquireStep
    \/ CallerSubmit
    \/ CallerSkip
    \/ EndFrame
    \/ PollEvents
    \/ OnWindowResize
    \/ GpuComplete
    \/ WindowResize

Spec == Init /\ [][Next]_vars

(* ------------- the VulkanSwapchain interface, called directly --------- *)
\* Initialization parameters a client passes
InitInfos ==
    { [device |-> TRUE, window |-> TRUE, preferredWidth |-> p, preferredHeight |-> p] :
        p \in {0, MaxDim} }
    \cup { [device |-> FALSE, window |-> FALSE, preferredWidth |-> 0, preferredHeight |-> 0] }

ApiInitialize ==
    /\ pc = "idle"
    /\ calls < MaxCalls
    /\ calls' = calls + 1
    /\ \E info \in InitInfos, o \in CreateOutcomes :
        \E capabilities \in CapabilitiesIf(info.device /\ info.window /\ o.okSwap, fb) :
          LET r == Initialize(Cur, info, capabilities, fb, o.okSwap, o.failView, o.okSync)
          IN  /\ sc' = r.S.sc
              /\ vk' = r.S.vk
              /\ retval' = r.ret
    /\ vkResult' = NoCall
    /\ op' = "Initialize"
    /\ UNCHANGED << fb, events, renderer, pc, ret, loc, frameNo, acquired >>
    /\ UNCHANGED notSwapVars

\* VulkanSwapchain::Cleanup; with a device it first waits for the device to be idle
ApiCleanup ==
    /\ pc = "idle"
    /\ calls < MaxCalls
    /\ calls' = calls + 1
    /\ sc.m_device => vk.inFlight = {}
    /\ sc' = Cleanup(Cur).sc
    /\ vk' = Cleanup(Cur).vk
    /\ vkResult' = NoCall
    /\ retval' = FALSE
    /\ op' = "Cleanup"
    /\ UNCHANGED << fb, events, renderer, pc, ret, loc, frameNo, acquired >>
    /\ UNCHANGED notSwapVars

ApiAcquireNextImage ==
    /\ pc = "idle"
    /\ calls < MaxCalls
    /\ calls' = calls + 1
    /\ pc' = "acquire"
    /\ ret' = "api"
    /\ acquired' = FALSE
    /\ UNCHANGED << sc, vk, fb, events, renderer, loc, vkResult, retval, op, frameNo >>
    /\ UNCHANGED notSwapVars

\* The client submits work with GetInFlightFence() after a successful acquire
ApiSubmit ==
    /\ pc = "idle"
    /\ acquired
    /\ ~SyncMissing(Cur)
    /\ vk' = [vk EXCEPT !.inFlight = @ \cup {[frame |-> 0, fence |-> CurrentFence(Cur)]}]
    /\ acquired' = FALSE
    /\ UNCHANGED << sc, fb, events, renderer, pc, ret, loc, vkResult, retval, op, frameNo, calls >>
    /\ UNCHANGED notSwapVars

\* PresentImage (lines 98-127); reading m_renderFinishedSemaphores[m_currentFrame]
\* of a vector without that element is undefined
ApiPresentImage ==
    /\ pc = "idle"
    /\ calls < MaxCalls
    /\ calls' = calls + 1
    /\ acquired' = FALSE
    /\ IF sc.m_device /\ sc.m_swapchain # VK_NULL_HANDLE /\ SyncMissing(Cur)
       THEN /\ pc' = "ub"
            /\ UNCHANGED << sc, vk, vkResult, retval, op >>
       ELSE /\ \E imageIndex \in 0..1, result \in VkResults :
                 LET r == PresentImage(Cur, imageIndex, result)
                 IN  /\ sc' = r.S.sc
                     /\ vk' = r.S.vk
                     /\ vkResult' = r.vkResult
                     /\ retval' = r.ret
                     /\ op' = "PresentImage"
            /\ pc' = pc
    /\ UNCHANGED << fb, events, renderer, ret, loc, frameNo >>
    /\ UNCHANGED notSwapVars

ApiRecreateSwapchain ==
    /\ pc = "idle"
    /\ calls < MaxCalls
    /\ calls' = calls + 1
    /\ pc' = "rc_enter"
    /\ ret' = "api"
    /\ UNCHANGED << sc, vk, fb, events, renderer, loc, vkResult, retval, op, frameNo, acquired >>
    /\ UNCHANGED notSwapVars

ApiMarkOutOfDate ==
    /\ pc = "idle"
    /\ calls < MaxCalls
    /\ calls' = calls + 1
    /\ sc' = MarkOutOfDate(Cur).sc
    /\ vkResult' = NoCall
    /\ retval' = FALSE
    /\ op' = "MarkOutOfDate"
    /\ UNCHANGED << vk, fb, events, renderer, pc, ret, loc, frameNo, acquired >>
    /\ UNCHANGED notSwapVars

ApiAdvanceFrame ==
    /\ pc = "idle"
    /\ calls < MaxCalls
    /\ calls' = calls + 1
    /\ sc' = AdvanceFrame(Cur).sc
    /\ acquired' = FALSE
    /\ vkResult' = NoCall
    /\ retval' = FALSE
    /\ op' = "AdvanceFrame"
    /\ UNCHANGED << vk, fb, events, renderer, pc, ret, loc, frameNo >>
    /\ UNCHANGED notSwapVars

NextSwapchain ==
    \/ ApiInitialize
    \/ ApiCleanup
    \/ ApiAcquireNextImage
    \/ ApiSubmit
    \/ ApiPresentImage
    \/ ApiRecreateSwapchain
    \/ ApiMarkOutOfDate
    \/ ApiAdvanceFrame
    \/ RecreateEnter
    \/ RecreateGetSize
    \/ RecreateWaitEvents
    \/ RecreateRebuildStep
    \/ AcquireStep
    \/ GpuComplete
    \/ WindowResize

SpecSwapchain == Init /\ [][NextSwapchain]_vars

(* ------------------ the ResourceManager interface --------------------- *)
CurR == [rm |-> rm, vma |-> vma, cmd |-> cmd]

\* Handle values a caller may pass: the ones it holds, the all-null value, and
\* values with one of the two tested fields null
BufferArgs ==
    client.buffers
      \cup { NullBuffer, [NullBuffer EXCEPT !.buffer = 1], [NullBuffer EXCEPT !.allocation = 1] }

ImageArgs ==
    client.images
      \cup { NullImage, [NullImage EXCEPT !.image = 1], [NullImage EXCEPT !.allocation = 1] }

RawImageArgs == { i.image : i \in client.images } \cup {VK_NULL_HANDLE}

\* The command layer's outcomes that matter to a call: none when the call
\* returns before it reaches the command layer
OutcomesIf(reached) == IF reached THEN SingleTimeOutcomes ELSE {"ok"}

\* The call `name` ends with outcome r. valid: every handle passed was non-null
\* in both tested fields; fault: the failure the allocator, the device or the
\* command layer answered with ("none": they all succeeded); held: what the
\* callers hold afterwards
Record(name, r, valid, fault, held) ==
    /\ rmCalls' = rmCalls + 1
    /\ rm' = r.R.rm
    /\ vma' = r.R.vma
    /\ cmd' = r.R.cmd
    /\ client' = held
    /\ last' = [ op |-> name, ok |-> r.ok, buffer |-> r.buffer, image |-> r.image,
                 ops |-> r.ops, cmdOps |-> r.cmdOps, thrown |-> r.thrown,
                 argsValid |-> valid, fault |-> fault, reported |-> r.reported ]
    /\ UNCHANGED notRmVars

CallInitialize ==
    /\ rmCalls < MaxRmCalls
    /\ \E okAllocator \in BOOLEAN :
          LET r == ResourceManager_Initialize(CurR, okAllocator)
          IN  Record("Initialize", r, TRUE, IF okAllocator THEN "none" ELSE "alloc", client)

\* Shutdown / Cleanup; the callers drop the handles of a destroyed allocator
CallCleanup ==
    /\ rmCalls < MaxRmCalls
    /\ LET r == ResourceManager_Cleanup(CurR)
       IN  Record("Cleanup", r, TRUE, "none",
                  IF rm.m_initialized THEN [buffers |-> {}, images |-> {}] ELSE client)

\* CreateBuffer and its wrappers CreateVertexBuffer, CreateIndexBuffer,
\* CreateUniformBuffer, CreateStagingBuffer
CallCreateBuffer ==
    /\ rmCalls < MaxRmCalls
    /\ \E okAlloc \in BOOLEAN, mapped \in BOOLEAN :
          LET r == CreateBuffer(CurR, okAlloc, mapped)
          IN  Record("CreateBuffer", r, TRUE, IF okAlloc THEN "none" ELSE "alloc",
                     IF AllocatedBuffer_IsValid(r.buffer)
                     THEN [client EXCEPT !.buffers = @ \cup {r.buffer}]
                     ELSE client)

\* CreateImage and its wrappers CreateImage2D, CreateTexture2D
CallCreateImage ==
    /\ rmCalls < MaxRmCalls
    /\ \E okAlloc \in BOOLEAN, okView \in BOOLEAN, mipLevels \in 1..MaxMips :
          LET r == CreateImage(CurR, okAlloc, okView, mipLevels)
          IN  Record("CreateImage", r, TRUE,
                     IF ~okAlloc THEN "alloc" ELSE IF ~okView THEN "view" ELSE "none",
                     IF AllocatedImage_IsValid(r.image)
                     THEN [client EXCEPT !.images = @ \cup {r.image}]
                     ELSE client)

CallDestroyBuffer ==
    /\ rmCalls < MaxRmCalls
    /\ \E b \in BufferArgs :
          Record("DestroyBuffer", DestroyBuffer(CurR, b), AllocatedBuffer_IsValid(b), "none",
                 IF rm.m_initialized THEN [client EXCEPT !.buffers = @ \ {b}] ELSE client)

CallDestroyImage ==
    /\ rmCalls < MaxRmCalls
    /\ \E i \in ImageArgs :
          Record("DestroyImage", DestroyImage(CurR, i), AllocatedImage_IsValid(i), "none",
                 IF rm.m_initialized THEN [client EXCEPT !.images = @ \ {i}] ELSE client)

CallMapBuffer ==
    /\ rmCalls < MaxRmCalls
    /\ \E b \in BufferArgs :
       \E okMap \in (IF rm.m_initialized /\ AllocatedBuffer_IsValid(b) /\ ~b.pMappedData
                     THEN BOOLEAN ELSE {TRUE}) :
          Record("MapBuffer", MapBuffer(CurR, b, okMap), AllocatedBuffer_IsValid(b),
                 IF okMap THEN "none" ELSE "map", client)

CallUnmapBuffer ==
    /\ rmCalls < MaxRmCalls
    /\ \E b \in BufferArgs :
          Record("UnmapBuffer", UnmapBuffer(CurR, b), AllocatedBuffer_IsValid(b), "none", client)

CallFlushBuffer ==
    /\ rmCalls < MaxRmCalls
    /\ \E b \in BufferArgs :
          Record("FlushBuffer", FlushBuffer(CurR, b), AllocatedBuffer_IsValid(b), "none", client)

CallInvalidateBuffer ==
    /\ rmCalls < MaxRmCalls
    /\ \E b \in BufferArgs :
          Record("InvalidateBuffer", InvalidateBuffer(CurR, b), AllocatedBuffer_IsValid(b), "none", client)

CallCopyBuffer ==
    /\ rmCalls < MaxRmCalls
    /\ \E src \in BufferArgs, dst \in BufferArgs :
       \E st \in OutcomesIf(rm.m_initialized /\ AllocatedBuffer_IsValid(src)
                                             /\ AllocatedBuffer_IsValid(dst)) :
          Record("CopyBuffer", CopyBuffer(CurR, src, dst, st),
                 AllocatedBuffer_IsValid(src) /\ AllocatedBuffer_IsValid(dst),
                 IF st = "ok" THEN "none" ELSE st, client)

CallCopyBufferToImage ==
    /\ rmCalls < MaxRmCalls
    /\ \E b \in BufferArgs, i \in ImageArgs :
       \E st \in OutcomesIf(rm.m_initialized /\ AllocatedBuffer_IsValid(b)
                                             /\ AllocatedImage_IsValid(i)) :
          Record("CopyBufferToImage", CopyBufferToImage(CurR, b, i, st),
                 AllocatedBuffer_IsValid(b) /\ AllocatedImage_IsValid(i),
                 IF st = "ok" THEN "none" ELSE st, client)

CallTransitionImageLayout ==
    /\ rmCalls < MaxRmCalls
    /\ \E image \in RawImageArgs, oldLayout \in VkImageLayouts, newLayout \in VkImageLayouts :
       \E st \in OutcomesIf(rm.m_initialized) :
          Record("TransitionImageLayout",
                 TransitionImageLayout(CurR, image, oldLayout, newLayout, st),
                 image # VK_NULL_HANDLE, IF st = "ok" THEN "none" ELSE st, client)

CallGenerateMipmaps ==
    /\ rmCalls < MaxRmCalls
    /\ \E image \in RawImageArgs, linearBlit \in BOOLEAN, mipLevels \in 1..MaxMips :
       \E st \in OutcomesIf(rm.m_initialized /\ linearBlit) :
          Record("GenerateMipmaps", GenerateMipmaps(CurR, image, linearBlit, mipLevels, st),
                 image # VK_NULL_HANDLE, IF st = "ok" THEN "none" ELSE st, client)

NextRM ==
    \/ CallInitialize
    \/ CallCleanup
    \/ CallCreateBuffer
    \/ CallCreateImage
    \/ CallDestroyBuffer
    \/ CallDestroyImage
    \/ CallMapBuffer
    \/ CallUnmapBuffer
    \/ CallFlushBuffer
    \/ CallInvalidateBuffer
    \/ CallCopyBuffer
    \/ CallCopyBufferToImage
    \/ CallTransitionImageLayout
    \/ CallGenerateMipmaps

InitRM == NoSwapSide /\ InitRmSide /\ NoTexSide /\ NoCbSide /\ NoLifeSide /\ NoAppSide

SpecRM == InitRM /\ [][NextRM]_vars

\* The ResourceManager calls that bear on an image layout transition: the ones
\* that make and end the manager, make and destroy images, and the transition
NextTransition ==
    \/ CallInitialize
    \/ CallCleanup
    \/ CallCreateImage
    \/ CallDestroyImage
    \/ CallTransitionImageLayout

SpecTransition == InitRM /\ [][NextTransition]_vars

\* CreateImage2D or CreateTexture2D (name) is called with a width and height
\* up to MaxDim; valid: neither is zero
CallCreate2D(name) ==
    /\ rmCalls < MaxRmCalls
    /\ \E width \in Dims, height \in Dims, okAlloc \in BOOLEAN, okView \in BOOLEAN,
          mipLevels \in 1..MaxMips :
          LET r == IF name = "CreateImage2D"
                   THEN CreateImage2D(CurR, width, height, mipLevels, okAlloc, okView)
                   ELSE CreateTexture2D(CurR, width, height, mipLevels, okAlloc, okView)
          IN  Record(name, r, width > 0 /\ height > 0,
                     IF ~okAlloc THEN "alloc" ELSE IF ~okView THEN "view" ELSE "none",
                     IF AllocatedImage_IsValid(r.image)
                     THEN [client EXCEPT !.images = @ \cup {r.image}]
                     ELSE client)

CallCreateImage2D ==
    /\ rmCalls < MaxRmCalls
    /\ CallCreate2D("CreateImage2D")

CallCreateTexture2D ==
    /\ rmCalls < MaxRmCalls
    /\ CallCreate2D("CreateTexture2D")

\* The ResourceManager calls that make and destroy two-dimensional images
NextImage2D ==
    \/ CallInitialize
    \/ CallCleanup
    \/ CallCreateImage2D
    \/ CallCreateTexture2D
    \/ CallDestroyImage

SpecImage2D == InitRM /\ [][NextImage2D]_vars

(* ----------------------- the texture upload paths ---------------------- *)
\* What the three single-time command sequences of an upload may meet
UploadOutcomes(reached) ==
    IF reached THEN [1..3 -> SingleTimeOutcomes] ELSE { [i \in 1..3 |-> "ok"] }

\* The upload `name` ended as `u`: the texture, when one is returned, keeps the image
Uploaded(name, u) ==
    /\ uploads' = uploads + 1
    /\ rm' = u.R.rm
    /\ vma' = u.R.vma
    /\ cmd' = u.R.cmd
    /\ client' = IF u.returned
                 THEN [client EXCEPT !.images = @ \cup {u.image}]
                 ELSE client
    /\ tex' = [ op |-> name, returned |-> u.returned, thrown |-> u.thrown,
                image |-> u.image, layout |-> u.layout, copied |-> u.copied,
                requests |-> u.requests, copyLayouts |-> u.copyLayouts ]
    /\ UNCHANGED << rmCalls, last >>
    /\ UNCHANGED notTexVars

CallLoadTexture ==
    /\ uploads < MaxUploads
    /\ \E okImage \in BOOLEAN, okView \in BOOLEAN, okStaging \in BOOLEAN :
       \E sts \in UploadOutcomes(rm.m_initialized /\ okImage /\ okView /\ okStaging) :
          Uploaded("LoadTexture", LoadTexture(CurR, okImage, okView, okStaging, sts))

CallCreateTextureFromData ==
    /\ uploads < MaxUploads
    /\ \E okImage \in BOOLEAN, okView \in BOOLEAN, okStaging \in BOOLEAN :
       \E sts \in UploadOutcomes(rm.m_initialized /\ okImage /\ okView /\ okStaging) :
          Uploaded("CreateTextureFromData",
                   CreateTextureFromData(CurR, okImage, okView, okStaging, sts))

NextTexture ==
    \/ CallInitialize
    \/ CallCleanup
    \/ CallLoadTexture
    \/ CallCreateTextureFromData

InitTexture == NoSwapSide /\ InitRmSide /\ InitTexSide /\ NoCbSide /\ NoLifeSide /\ NoAppSide

SpecTexture == InitTexture /\ [][NextTexture]_vars

(* --------------------- the command layer's interface ------------------- *)
\* Handles a caller may pass in a SubmitInfo
Fences == {VK_NULL_HANDLE, 5}
Queues == {VK_NULL_HANDLE, GraphicsQueue, PresentQueue}
Stages == {"TOP_OF_PIPE"}

SeqsUpTo(S, n) == UNION { [1..k -> S] : k \in 0..n }

SubmitInfos ==
    [ commandBuffers : SeqsUpTo({TransientCommandBuffer}, 1),
      waitSemaphores : SeqsUpTo({3}, 2),
      waitStages : SeqsUpTo(Stages, 2),
      signalSemaphores : SeqsUpTo({4}, 1),
      fence : Fences,
      queue : Queues ]

\* The call `name` with these arguments ended as `r`
CmdRecord(name, info, recordingFunction, r) ==
    /\ cbCalls' = cbCalls + 1
    /\ cb' = r.C
    /\ cbLast' = [ op |-> name, info |-> info, recordingFunction |-> recordingFunction,
                   ret |-> r.ret, thrown |-> r.thrown, reported |-> r.reported,
                   log |-> r.log ]
    /\ UNCHANGED notCbVars

CbInitialize ==
    /\ cbCalls < MaxCmdCalls
    /\ \E device \in BOOLEAN, outcome \in CmdInitializeOutcomes :
          CmdRecord("Initialize", NoSubmitInfo, "none",
                    CmdInitialize(cb, ReadyDevice, device, 1, outcome))

CbCleanup ==
    /\ cbCalls < MaxCmdCalls
    /\ CmdRecord("Cleanup", NoSubmitInfo, "none", CmdCleanup(cb, ReadyDevice))

CbSubmitCommandBuffers ==
    /\ cbCalls < MaxCmdCalls
    /\ \E info \in SubmitInfos, okSubmit \in BOOLEAN :
          CmdRecord("SubmitCommandBuffers", info, "none",
                    SubmitCommandBuffers(cb, ReadyDevice, info, okSubmit))

CbExecuteImmediate ==
    /\ cbCalls < MaxCmdCalls
    /\ \E recordingFunction \in Callbacks, st \in SingleTimeOutcomes :
          CmdRecord("ExecuteImmediate", NoSubmitInfo, recordingFunction,
                    ExecuteImmediate(cb, ReadyDevice, recordingFunction, st))

NextCmd ==
    \/ CbInitialize
    \/ CbCleanup
    \/ CbSubmitCommandBuffers
    \/ CbExecuteImmediate

InitCmd == NoSwapSide /\ NoRmSide /\ NoTexSide /\ InitCbSide /\ NoLifeSide /\ NoAppSide

SpecCmd == InitCmd /\ [][NextCmd]_vars

(* ------------------ bring-up and teardown of one engine ---------------- *)
\* The call `name` ended as `x`, an [E, ret]
LifeRecord(name, x) ==
    /\ lifeCalls' = lifeCalls + 1
    /\ engine' = x.E
    /\ lifeLast' = [op |-> name, ret |-> x.ret]
    /\ UNCHANGED notLifeVars

EngineExists == lifeLast.op # "Engine::~Engine"

EngineInitialized == engine.r.m_initialized /\ engine.rmgr.m_initialized

\* Bring-up is one-shot: Initialize is called on a renderer that has not been
\* brought up, or on an initialized one
LcRendererInitialize ==
    /\ lifeCalls < MaxLifeCalls
    /\ EngineExists
    /\ engine.r.m_initialized \/ engine.r = VulkanRendererObject
    /\ \E out \in RendererOutcomes :
          LifeRecord("VulkanRenderer::Initialize",
                     VulkanRenderer_Initialize(Entering(engine), out))

\* The engine creates the ResourceManager once the renderer is up
\* (Engine.cpp:111-140)
LcResourceManagerInitialize ==
    /\ lifeCalls < MaxLifeCalls
    /\ EngineExists
    /\ engine.r.m_initialized
    /\ \E okAllocator \in BOOLEAN :
          LifeRecord("ResourceManager::Initialize",
                     ResourceManager_CreateAllocator(Entering(engine), okAllocator))

LcResourceManagerShutdown ==
    /\ lifeCalls < MaxLifeCalls
    /\ EngineExists
    /\ LifeRecord("ResourceManager::Shutdown",
                  Returning(ResourceManager_Shutdown(Entering(engine)), TRUE))

\* The renderer is shut down after the ResourceManager (Engine.cpp:316-324)
LcRendererShutdown ==
    /\ lifeCalls < MaxLifeCalls
    /\ EngineExists
    /\ ~engine.rmgr.m_initialized
    /\ LifeRecord("VulkanRenderer::Shutdown",
                  Returning(VulkanRenderer_Shutdown(Entering(engine)), TRUE))

\* Engine::Shutdown of an initialized engine
LcShutdownModules ==
    /\ lifeCalls < MaxLifeCalls
    /\ EngineExists
    /\ EngineInitialized
    /\ LifeRecord("Engine::ShutdownModules",
                  Returning(Engine_ShutdownModules(Entering(engine)), TRUE))

\* The engine object goes away after a failed Initialize
LcEngineDestructor ==
    /\ lifeCalls < MaxLifeCalls
    /\ EngineExists
    /\ ~EngineInitialized
    /\ LifeRecord("Engine::~Engine",
                  Returning(Engine_Destructor(Entering(engine)), TRUE))

NextLife ==
    \/ LcRendererInitialize
    \/ LcResourceManagerInitialize
    \/ LcResourceManagerShutdown
    \/ LcRendererShutdown
    \/ LcShutdownModules
    \/ LcEngineDestructor

InitLife == NoSwapSide /\ NoRmSide /\ NoTexSide /\ NoCbSide /\ InitLifeSide /\ NoAppSide

SpecLife == InitLife /\ [][NextLife]_vars

(* ------------------------ a VulkanDevice on its own -------------------- *)
\* Initialize is called on a VulkanDevice that holds no object
DvInitialize ==
    /\ lifeCalls < MaxLifeCalls
    /\ engine.alive = {}
    /\ \E enableValidation \in BOOLEAN, window \in BOOLEAN, how \in DeviceOutcomes :
          LifeRecord("VulkanDevice::Initialize",
                     VulkanDevice_Initialize(
                        [Entering(engine) EXCEPT !.dev = VulkanDeviceObject],
                        enableValidation, window, how))

DvCleanup ==
    /\ lifeCalls < MaxLifeCalls
    /\ LifeRecord("VulkanDevice::Cleanup",
                  Returning(VulkanDevice_Cleanup(Entering(engine)), TRUE))

NextDevice ==
    \/ DvInitialize
    \/ DvCleanup

SpecDevice == InitLife /\ [][NextDevice]_vars

(* ------------------- functions applied on their own ------------------- *)
\* Lists of at most n present modes
ModeListsUpTo(n) == UNION { [1..k -> PresentModes] : k \in 0..n }

\* The inputs of one ChooseSwapPresentMode call, not yet made
InitPresentMode ==
    /\ NoObjects
    /\ \E enableVSync \in BOOLEAN, availablePresentModes \in ModeListsUpTo(MaxModes) :
          app = [ fn |-> "ChooseSwapPresentMode", enableVSync |-> enableVSync,
                  availablePresentModes |-> availablePresentModes,
                  applied |-> FALSE, result |-> "none" ]

ApplyChooseSwapPresentMode ==
    /\ ~app.applied
    /\ app' = [app EXCEPT !.applied = TRUE,
                          !.result = ChooseSwapPresentMode(app.enableVSync,
                                                           app.availablePresentModes)]
    /\ UNCHANGED notAppVars

NextPresentMode == ApplyChooseSwapPresentMode

SpecPresentMode == InitPresentMode /\ [][NextPresentMode]_vars

\* Extents a surface may report as current: the sizes up to MaxDim and the
\* "undefined" sentinel, in either component
CurrentExtents ==
    { [width |-> w, height |-> h] : w \in Dims \cup {UINT32_MAX}, h \in Dims \cup {UINT32_MAX} }

\* [minImageExtent, maxImageExtent] bounds a surface may report; a minimized
\* window may report a maximum of 0
ExtentBounds ==
    { [ min |-> [width |-> lw, height |-> lh], max |-> [width |-> hw, height |-> hh] ] :
        lw \in Dims, hw \in Dims, lh \in Dims, hh \in Dims } 

\* The inputs of one ChooseSwapExtent call, not yet made: the preferred size of
\* the InitInfo, the capabilities and what glfwGetFramebufferSize answers
InitExtent ==
    /\ NoObjects
    /\ \E pw \in Dims, ph \in Dims, current \in CurrentExtents, b \in ExtentBounds,
          w \in Dims, h \in Dims :
          /\ b.min.width <= b.max.width
          /\ b.min.height <= b.max.height
          /\ app = [ fn |-> "ChooseSwapExtent",
                     initInfo |-> [preferredWidth |-> pw, preferredHeight |-> ph],
                     capabilities |-> [ currentExtent |-> current,
                                        minImageExtent |-> b.min,
                                        maxImageExtent |-> b.max ],
                     framebuffer |-> [width |-> w, height |-> h],
                     applied |-> FALSE, result |-> "none" ]

ApplyChooseSwapExtent ==
    /\ ~app.applied
    /\ app' = [app EXCEPT !.applied = TRUE,
                          !.result = ChooseSwapExtent(app.initInfo, app.capabilities,
                                                      app.framebuffer)]
    /\ UNCHANGED notAppVars

NextExtent == ApplyChooseSwapExtent

SpecExtent == InitExtent /\ [][NextExtent]_vars

(* ------------------ a swapchain recreated several times --------------- *)
\* Window sizes of these runs; none is zero, so RecreateSwapchain's wait loop
\* (lines 137-140) is not entered
WindowSizes == { [width |-> d, height |-> d] : d \in 1..MaxWindow }

\* Surface capabilities while the framebuffer is `size`: the current extent is
\* the size, or the sentinel with bounds from 1 to MaxWindow
WindowCapabilities(size) ==
    { [ currentExtent  |-> size, minImageExtent |-> size, maxImageExtent |-> size,
        minImageCount  |-> 1, maxImageCount  |-> 0 ],
      [ currentExtent  |-> [width |-> UINT32_MAX, height |-> UINT32_MAX],
        minImageExtent |-> [width |-> 1, height |-> 1],
        maxImageExtent |-> [width |-> MaxWindow, height |-> MaxWindow],
        minImageCount  |-> 1, maxImageCount  |-> 0 ] }

\* A VulkanSwapchain in front of a window of some size; `app` holds the
\* RecreateSwapchain calls made in a row since the last other call, the last
\* two of them: whether the call succeeded and, if it did, the capabilities and
\* framebuffer size it read and the extent it stored
InitRecreate ==
    /\ InitSwapSide
    /\ NoRmSide /\ NoTexSide /\ NoCbSide /\ NoLifeSide
    /\ app = << >>

RcInitialize ==
    /\ calls < MaxCalls
    /\ calls' = calls + 1
    /\ \E info \in InitInfos, o \in CreateOutcomes, capabilities \in WindowCapabilities(fb) :
          LET r == Initialize(Cur, info, capabilities, fb, o.okSwap, o.failView, o.okSync)
          IN  /\ sc' = r.S.sc
              /\ vk' = r.S.vk
    /\ app' = << >>
    /\ UNCHANGED << fb, events, renderer, pc, ret, loc, vkResult, retval, op, frameNo,
                    acquired >>
    /\ UNCHANGED << rmVars, texVars, cbVars, lifeVars >>

\* The window is resized between two calls
RcWindowResize ==
    /\ \E size \in WindowSizes :
          /\ size # fb
          /\ fb' = size
    /\ UNCHANGED << sc, vk, events, renderer, pc, ret, loc, vkResult, retval, op, frameNo,
                    acquired, calls, app >>
    /\ UNCHANGED << rmVars, texVars, cbVars, lifeVars >>

\* The last two entries of the calls made in a row
LastTwo(history) == SubSeq(history, IF Len(history) > 2 THEN Len(history) - 1 ELSE 1,
                           Len(history))

\* RecreateSwapchain as one call: nothing is in flight and the window is not
\* minimized, so neither wait blocks
RcRecreateSwapchain ==
    /\ calls < MaxCalls
    /\ calls' = calls + 1
    /\ \E o \in RebuildOutcomes, capabilities \in WindowCapabilities(fb) :
          LET r == IF ~sc.m_device \/ ~sc.m_window
                   THEN [S |-> Cur, ret |-> FALSE]
                   ELSE RecreateRebuild(Cur, capabilities, fb, o.okSwap, o.failView)
          IN  /\ sc' = r.S.sc
              /\ vk' = r.S.vk
              /\ app' = LastTwo(Append(app,
                            IF r.ret
                            THEN [ ok |-> TRUE, capabilities |-> capabilities,
                                   framebuffer |-> fb,
                                   extent |-> r.S.sc.m_swapchainExtent ]
                            ELSE [ ok |-> FALSE ]))
    /\ UNCHANGED << fb, events, renderer, pc, ret, loc, vkResult, retval, op, frameNo,
                    acquired >>
    /\ UNCHANGED << rmVars, texVars, cbVars, lifeVars >>

NextRecreate ==
    \/ RcInitialize
    \/ RcWindowResize
    \/ RcRecreateSwapchain

SpecRecreate == InitRecreate /\ [][NextRecreate]_vars

(* ------------------ graphics settings and the present mode ------------ *)
\* What the renderer and its swapchain hold that bears on the present mode:
\* enableVSync is the swapchain's m_initInfo.enableVSync, presentMode the
\* createInfo.presentMode of the last successful vkCreateSwapchainKHR
SettingsRenderer ==
    [ m_initialized |-> FALSE, m_swapchain |-> FALSE, m_framebufferResized |-> FALSE,
      enableVSync |-> TRUE, m_outOfDate |-> FALSE, presentMode |-> "none" ]

\* VulkanRenderer::Initialize as far as the swapchain goes: CreateSwapchain
\* fills the InitInfo with enableVSync = true
SettingsInitialize(r, availablePresentModes, ok) ==
    IF r.m_initialized THEN r
    ELSE IF ~ok THEN [r EXCEPT !.m_swapchain = FALSE]
    ELSE [r EXCEPT !.m_initialized = TRUE, !.m_swapchain = TRUE, !.enableVSync = TRUE,
                   !.presentMode = ChooseSwapPresentMode(TRUE, availablePresentModes)]

\* graphics = [vsync, windowChanged]: the vsync field of the settings, and
\* whether the window size or the fullscreen mode differs from the current one
ApplyGraphicsSettings(r, graphics) ==
    IF ~r.m_initialized THEN r
    ELSE [r EXCEPT !.m_framebufferResized = graphics.windowChanged \/ r.m_swapchain \/ @]

\* BeginFrame up to the acquire: [r, recreated]
SettingsBeginFrame(r, availablePresentModes, ok) ==
    IF ~r.m_initialized \/ ~r.m_swapchain
    THEN [r |-> r, recreated |-> FALSE]
    ELSE IF r.m_outOfDate \/ r.m_framebufferResized
    THEN IF ok
         THEN [r |-> [r EXCEPT !.m_framebufferResized = FALSE, !.m_outOfDate = FALSE,
                               !.presentMode = ChooseSwapPresentMode(r.enableVSync,
                                                                     availablePresentModes)],
               recreated |-> TRUE]
         ELSE [r |-> [r EXCEPT !.m_framebufferResized = FALSE], recreated |-> FALSE]
    ELSE [r |-> r, recreated |-> FALSE]

\* A renderer in front of a surface that offers some present modes; requested:
\* ApplyGraphicsSettings ran on the initialized renderer since the last
\* recreation, vsync its setting; recreated: the last call was a BeginFrame
\* that recreated the swapchain
InitSettings ==
    /\ NoObjects
    /\ \E availablePresentModes \in ModeListsUpTo(MaxModes) :
          app = [ r |-> SettingsRenderer, availablePresentModes |-> availablePresentModes,
                  requested |-> FALSE, vsync |-> TRUE, recreated |-> FALSE ]

StRendererInitialize ==
    /\ ~app.r.m_initialized
    /\ \E ok \in BOOLEAN :
          app' = [app EXCEPT !.r = SettingsInitialize(@, app.availablePresentModes, ok),
                             !.recreated = FALSE]
    /\ UNCHANGED notAppVars

StApplyGraphicsSettings ==
    /\ app.r.m_initialized
    /\ \E vsync \in BOOLEAN, windowChanged \in BOOLEAN :
          app' = [app EXCEPT !.r = ApplyGraphicsSettings(@, [vsync |-> vsync,
                                                            windowChanged |-> windowChanged]),
                             !.requested = TRUE, !.vsync = vsync, !.recreated = FALSE]
    /\ UNCHANGED notAppVars

StBeginFrame ==
    /\ app.r.m_initialized
    /\ \E ok \in BOOLEAN :
          LET b == SettingsBeginFrame(app.r, app.availablePresentModes, ok)
          IN  app' = [app EXCEPT !.r = b.r, !.recreated = b.recreated,
                                 !.requested = IF b.recreated THEN @ ELSE FALSE]
    /\ UNCHANGED notAppVars

NextSettings ==
    \/ StRendererInitialize
    \/ StApplyGraphicsSettings
    \/ StBeginFrame

SpecSettings == InitSettings /\ [][NextSettings]_vars

(* ------------------- the frame loop and its fences -------------------- *)
\* The renderer's command layer once VulkanRenderer::Initialize has set it up
ReadyCommandLayer ==
    [CommandLayerObject EXCEPT !.m_initialized = TRUE, !.m_device = TRUE,
                               !.m_commandPool = 1, !.m_commandBuffers = 1]

\* The frame's SubmitInfo: `count` recorded command buffers, to be signalled on
\* the current slot's in-flight fence (GetInFlightFence, VulkanSwapchain.h:47)
FrameSubmitInfo(S, count) ==
    [NoSubmitInfo EXCEPT !.commandBuffers = [i \in 1..count |-> i],
                         !.fence = CurrentFence(S)]

\* The fences handed to vkQueueSubmit by the calls of `log`
SubmittedFences(log) ==
    { log[i].info.fence : i \in { j \in DOMAIN log : log[j].api = "vkQueueSubmit" } }

\* The caller of the frame loop, between BeginFrame and EndFrame, after a
\* successful acquire: it submits the command buffers it recorded, none or
\* one, through SubmitCommandBuffers with the slot's in-flight fence
FlCallerSubmit ==
    /\ pc = "body"
    /\ acquired
    /\ \E count \in 0..1 :
          \E s \in {SubmitCommandBuffers(ReadyCommandLayer, ReadyDevice,
                                         FrameSubmitInfo(Cur, count), TRUE)} :
              vk' = [vk EXCEPT !.inFlight =
                        @ \cup { [frame |-> frameNo, fence |-> f] : f \in SubmittedFences(s.log) }]
    /\ pc' = "end"
    /\ UNCHANGED << sc, fb, events, renderer, ret, loc, vkResult, retval, op,
                    frameNo, acquired, calls >>
    /\ UNCHANGED notSwapVars

\* A step of the control thread
FrameLoopStep ==
    \/ RendererInitialize
    \/ BeginFrame
    \/ RecreateEnter
    \/ RecreateGetSize
    \/ RecreateWaitEvents
    \/ RecreateRebuildStep
    \/ AcquireStep
    \/ FlCallerSubmit
    \/ CallerSkip
    \/ EndFrame
    \/ PollEvents

NextFrameLoop ==
    \/ FrameLoopStep
    \/ OnWindowResize
    \/ GpuComplete
    \/ WindowResize

\* The control thread keeps running while it has a step to take, and the GPU
\* completes every submission it was given
SpecFrameLoop ==
    /\ Init
    /\ [][NextFrameLoop]_vars
    /\ WF_vars(FrameLoopStep)
    /\ WF_vars(GpuComplete)

(* --------------------- the AssetManager's textures -------------------- *)
\* An AssetManager constructed over a ResourceManager. m_assetCache maps a
\* path to a weak_ptr: the set of paths that have an entry
AssetManagerObject ==
    [ m_initialized |-> FALSE, m_resourceManager |-> TRUE, m_assetCache |-> {} ]

\* Paths a caller asks for
Paths == 1..MaxUploads

AssetManager_Initialize(A) == [A EXCEPT !.m_initialized = TRUE]

AssetManager_UnloadAsset(A, path) == [A EXCEPT !.m_assetCache = @ \ {path}]

AssetManager_UnloadAllAssets(A) == [A EXCEPT !.m_assetCache = {}]

AssetManager_Shutdown(A) ==
    IF ~A.m_initialized THEN A
    ELSE [AssetManager_UnloadAllAssets(A) EXCEPT !.m_initialized = FALSE]

\* Texture::~Texture, run when the last shared_ptr to the Texture of `path` is
\* dropped: its body is empty, the ResourceManager is not called
Texture_Destructor(R, textures, path) ==
    [R |-> R, textures |-> { t \in textures : t.path # path }]

\* AssetManager::LoadTexture. textures: the Texture objects alive, as
\* [path, image]; decoded: stbi_load returned pixels; u: how the GPU part
\* (image creation and the staged upload, LoadTexture above) ends when it is
\* reached. Yields [A, R, textures, returned]
AssetManager_LoadTexture(A, R, textures, path, decoded, u) ==
    IF ~A.m_initialized
    THEN [A |-> A, R |-> R, textures |-> textures, returned |-> FALSE]
    ELSE IF path \in A.m_assetCache /\ \E t \in textures : t.path = path
    THEN [A |-> A, R |-> R, textures |-> textures, returned |-> TRUE]
    ELSE IF ~decoded \/ ~A.m_resourceManager
    THEN [A |-> A, R |-> R, textures |-> textures, returned |-> FALSE]
    ELSE IF ~u.returned
    THEN [A |-> A, R |-> u.R, textures |-> textures, returned |-> FALSE]
    ELSE [A |-> [A EXCEPT !.m_assetCache = @ \cup {path}], R |-> u.R,
          textures |-> textures \cup {[path |-> path, image |-> u.image]},
          returned |-> TRUE]

\* An AssetManager over a ResourceManager; the command layer succeeds. app:
\* the AssetManager, the Textures alive in the callers' hands, the number of
\* LoadTexture calls made and whether a texture was ever created
InitAssets ==
    /\ NoSwapSide /\ InitRmSide /\ NoTexSide /\ NoCbSide /\ NoLifeSide
    /\ app = [ A |-> AssetManagerObject, textures |-> {}, loads |-> 0, created |-> FALSE ]

AsInitialize ==
    /\ ~app.A.m_initialized
    /\ app' = [app EXCEPT !.A = AssetManager_Initialize(@)]
    /\ UNCHANGED << swapVars, rmVars, texVars, cbVars, lifeVars >>

AsLoadTexture ==
    /\ app.loads < MaxUploads
    /\ \E path \in Paths, decoded \in BOOLEAN, okImage \in BOOLEAN, okView \in BOOLEAN,
          okStaging \in BOOLEAN :
          \E u \in {LoadTexture(CurR, okImage, okView, okStaging, [i \in 1..3 |-> "ok"])} :
          \E l \in {AssetManager_LoadTexture(app.A, CurR, app.textures, path, decoded, u)} :
              /\ app' = [app EXCEPT !.A = l.A, !.textures = l.textures, !.loads = @ + 1,
                                    !.created = @ \/ l.textures # app.textures]
              /\ rm' = l.R.rm
              /\ vma' = l.R.vma
              /\ cmd' = l.R.cmd
    /\ UNCHANGED << client, rmCalls, last >>
    /\ UNCHANGED << swapVars, texVars, cbVars, lifeVars >>

\* The callers drop their last reference to a Texture
AsReleaseTexture ==
    /\ app.textures # {}
    /\ \E t \in app.textures :
          LET d == Texture_Destructor(CurR, app.textures, t.path)
          IN  /\ app' = [app EXCEPT !.textures = d.textures]
              /\ rm' = d.R.rm
              /\ vma' = d.R.vma
              /\ cmd' = d.R.cmd
    /\ UNCHANGED << client, rmCalls, last >>
    /\ UNCHANGED << swapVars, texVars, cbVars, lifeVars >>

AsUnloadAsset ==
    /\ app.A.m_assetCache # {}
    /\ \E path \in Paths : app' = [app EXCEPT !.A = AssetManager_UnloadAsset(@, path)]
    /\ UNCHANGED << swapVars, rmVars, texVars, cbVars, lifeVars >>

AsUnloadAllAssets ==
    /\ app.A.m_assetCache # {}
    /\ app' = [app EXCEPT !.A = AssetManager_UnloadAllAssets(@)]
    /\ UNCHANGED << swapVars, rmVars, texVars, cbVars, lifeVars >>

AsShutdown ==
    /\ app.A.m_initialized
    /\ app' = [app EXCEPT !.A = AssetManager_Shutdown(@)]
    /\ UNCHANGED << swapVars, rmVars, texVars, cbVars, lifeVars >>

NextAssets ==
    \/ CallInitialize
    \/ AsInitialize
    \/ AsLoadTexture
    \/ AsReleaseTexture
    \/ AsUnloadAsset
    \/ AsUnloadAllAssets
    \/ AsShutdown

SpecAssets == InitAssets /\ [][NextAssets]_vars

(* ------------------------ the Engine's running state ------------------ *)
\* The Engine's flags (Engine.h:90-91), what its module pointers hold ("none",
\* "partial" after a bring-up that threw, "all") and the configuration kept by
\* its SettingsManager (NoConfig, the default EngineConfig, without one)
NoConfig == 0

Configs == 1..MaxWindow

EngineState ==
    [ m_running |-> FALSE, m_initialized |-> FALSE, modules |-> "none",
      config |-> NoConfig ]

Engine_IsRunning(G) == G.m_running

Engine_RequestShutdown(G) == [G EXCEPT !.m_running = FALSE]

Engine_Shutdown_KeepRunning(G) ==
    IF ~G.m_initialized THEN G
    ELSE [G EXCEPT !.modules = "none", !.config = NoConfig, !.m_initialized = FALSE]

\* Engine::Shutdown; ShutdownModules resets every module pointer
Engine_Shutdown(G) ==
    IF ~G.m_initialized THEN G
    ELSE [G EXCEPT !.m_running = FALSE, !.modules = "none", !.config = NoConfig,
                   !.m_initialized = FALSE]

\* Engine::Initialize; okModules: InitializeModules does not throw. A throw is
\* caught, Shutdown is called on the engine as it is, and false is returned.
\* Yields [G, ret]
Engine_Initialize(G, config, okModules) ==
    IF G.m_initialized THEN [G |-> G, ret |-> FALSE]
    ELSE IF ~okModules
    THEN [G |-> Engine_Shutdown([G EXCEPT !.modules = "partial", !.config = NoConfig]),
          ret |-> FALSE]
    ELSE [G |-> [G EXCEPT !.modules = "all", !.config = config,
                          !.m_initialized = TRUE, !.m_running = TRUE],
          ret |-> TRUE]

\* Engine::Run: without an initialized engine it returns at once; otherwise it
\* returns when the loop finds m_running false, which a running engine reaches
\* by a RequestShutdown made from a module's update
Engine_Run(G) ==
    IF ~G.m_initialized THEN G ELSE Engine_RequestShutdown(G)

\* An Engine on its own. app: the engine, the engine before the last call,
\* the last call and what it returned, the number of calls made
InitRunning ==
    /\ NoObjects
    /\ app = [ G |-> EngineState, before |-> EngineState, op |-> "none", ret |-> TRUE,
               n |-> 0 ]

EngineCalled(name, G, returned) ==
    app' = [ G |-> G, before |-> app.G, op |-> name, ret |-> returned, n |-> app.n + 1 ]

RnInitialize ==
    /\ app.n < MaxLifeCalls
    /\ \E config \in Configs, okModules \in BOOLEAN :
          \E i \in {Engine_Initialize(app.G, config, okModules)} :
              EngineCalled("Initialize", i.G, i.ret)
    /\ UNCHANGED notAppVars

RnRequestShutdown ==
    /\ app.n < MaxLifeCalls
    /\ EngineCalled("RequestShutdown", Engine_RequestShutdown(app.G), TRUE)
    /\ UNCHANGED notAppVars

RnShutdown ==
    /\ app.n < MaxLifeCalls
    /\ EngineCalled("Shutdown", Engine_Shutdown(app.G), TRUE)
    /\ UNCHANGED notAppVars

RnRun ==
    /\ app.n < MaxLifeCalls
    /\ EngineCalled("Run", Engine_Run(app.G), TRUE)
    /\ UNCHANGED notAppVars

NextRunning ==
    \/ RnInitialize
    \/ RnRun
    \/ RnRequestShutdown
    \/ RnShutdown

SpecRunning == InitRunning /\ [][NextRunning]_vars

(* --------------------- mapping one buffer's memory -------------------- *)
\* How many calls of `api` the allocator received in `ops`
CountCalls(ops, api) == Cardinality({ j \in DOMAIN ops : ops[j].api = api })

\* A ResourceManager and one buffer of a caller that brackets its writes with
\* MapBuffer and UnmapBuffer. app: the buffer, whether the caller holds the
\* pointer MapBuffer returned, the vmaMapMemory and vmaUnmapMemory calls the
\* allocator received for the buffer, the number of calls made
InitMapping ==
    /\ NoSwapSide /\ InitRmSide /\ NoTexSide /\ NoCbSide /\ NoLifeSide
    /\ app = [ b |-> NullBuffer, held |-> FALSE, maps |-> 0, unmaps |-> 0, n |-> 0 ]

\* The caller's step ended as `r`
Mapped(r, b, held) ==
    /\ app' = [ b |-> b, held |-> held,
                maps |-> app.maps + CountCalls(r.ops, "vmaMapMemory"),
                unmaps |-> app.unmaps + CountCalls(r.ops, "vmaUnmapMemory"),
                n |-> app.n + 1 ]
    /\ rm' = r.R.rm
    /\ vma' = r.R.vma
    /\ cmd' = r.R.cmd
    /\ UNCHANGED << client, rmCalls, last >>
    /\ UNCHANGED << swapVars, texVars, cbVars, lifeVars >>

\* CreateStagingBuffer, CreateUniformBuffer and the host-visible vertex and
\* index buffers pass VMA_ALLOCATION_CREATE_MAPPED_BIT; the others do not
MpCreateBuffer ==
    /\ app.n < MaxRmCalls
    /\ ~AllocatedBuffer_IsValid(app.b)
    /\ \E okAlloc \in BOOLEAN, mapped \in BOOLEAN :
          \E r \in {CreateBuffer(CurR, okAlloc, mapped)} : Mapped(r, r.buffer, FALSE)

MpMapBuffer ==
    /\ app.n < MaxRmCalls
    /\ AllocatedBuffer_IsValid(app.b)
    /\ ~app.held
    /\ \E okMap \in BOOLEAN :
          \E r \in {MapBuffer(CurR, app.b, okMap)} : Mapped(r, app.b, r.ok)

MpUnmapBuffer ==
    /\ app.n < MaxRmCalls
    /\ app.held
    /\ \E r \in {UnmapBuffer(CurR, app.b)} : Mapped(r, app.b, FALSE)

NextMapping ==
    \/ CallInitialize
    \/ MpCreateBuffer
    \/ MpMapBuffer
    \/ MpUnmapBuffer

SpecMapping == InitMapping /\ [][NextMapping]_vars

(* ------------------- the RmlUi renderer's textures -------------------- *)
MaxTextures == 2
MaxUiCalls == 5

\* VulkanRmlRenderer's members (VulkanRmlRenderer.h:106-131); m_textures holds
\* one record per handle; created counts the GPU objects made so far (a new
\* object's handle) and destroyed lists the destroy calls made
RmlRendererObject ==
    [m_initialized |-> FALSE, m_defaultSampler |-> VK_NULL_HANDLE, m_textures |-> {},
     m_nextTextureHandle |-> 1, created |-> 0, destroyed |-> << >>]

NoTextureResource == [sampler |-> VK_NULL_HANDLE, image |-> VK_NULL_HANDLE]

GpuDestroy(kind, handle) == [kind |-> kind, handle |-> handle]

\* VulkanRmlRenderer::Initialize (lines 22-95): the sampler is made before the
\* buffers and the default texture; a failing step returns false and leaves
\* what was made; the default texture is kept outside m_textures
RmlRenderer_Initialize(U, how) ==
    IF U.m_initialized THEN U
    ELSE IF how = "sampler_fails" THEN U
    ELSE LET made == [U EXCEPT !.m_defaultSampler = U.created + 1, !.created = @ + 1]
         IN  IF how = "buffer_fails" THEN made
             ELSE [made EXCEPT !.created = @ + 1, !.m_initialized = TRUE]

\* VulkanRmlRenderer::CreateTextureFromData (lines 619-668): the texture it
\* returns refers to the shared default sampler
RmlRenderer_CreateTextureFromData(U, ok) ==
    IF ~ok THEN [U |-> U, texture |-> NoTextureResource]
    ELSE [U |-> [U EXCEPT !.created = @ + 1],
          texture |-> [sampler |-> U.m_defaultSampler, image |-> U.created + 1]]

\* VulkanRmlRenderer::LoadTexture (lines 326-346, with LoadTextureFromFile
\* 670-682) and GenerateTexture (348-369) store the texture under a new handle
RmlRenderer_StoreTexture(U, c) ==
    IF c.texture = NoTextureResource THEN c.U
    ELSE [c.U EXCEPT !.m_textures = @ \cup {[handle |-> U.m_nextTextureHandle,
                                               sampler |-> c.texture.sampler,
                                               image |-> c.texture.image]},
                     !.m_nextTextureHandle = @ + 1]

RmlRenderer_LoadTexture(U, decoded, ok) ==
    IF ~U.m_initialized \/ ~decoded THEN U
    ELSE RmlRenderer_StoreTexture(U, RmlRenderer_CreateTextureFromData(U, ok))

RmlRenderer_GenerateTexture(U, ok) ==
    IF ~U.m_initialized THEN U
    ELSE RmlRenderer_StoreTexture(U, RmlRenderer_CreateTextureFromData(U, ok))

\* the destroy calls made for one texture (lines 116-121 and 374-379)
TextureDestroyCalls(t) ==
    (IF t.sampler # VK_NULL_HANDLE THEN << GpuDestroy("sampler", t.sampler) >> ELSE << >>)
    \o << GpuDestroy("image", t.image) >>

\* VulkanRmlRenderer::ReleaseTexture (lines 371-381)
RmlRenderer_ReleaseTexture(U, texture) ==
    IF \E t \in U.m_textures : t.handle = texture
    THEN LET t == CHOOSE x \in U.m_textures : x.handle = texture
         IN  [U EXCEPT !.destroyed = @ \o TextureDestroyCalls(t), !.m_textures = @ \ {t}]
    ELSE U

RECURSIVE DestroyTextures(_)
DestroyTextures(textures) ==
    IF textures = {} THEN << >>
    ELSE LET t == CHOOSE x \in textures : \A y \in textures : x.handle <= y.handle
         IN  TextureDestroyCalls(t) \o DestroyTextures(textures \ {t})

\* VulkanRmlRenderer::Cleanup (lines 97-159): every stored texture's sampler
\* and image, then the default sampler
RmlRenderer_Cleanup(U) ==
    IF ~U.m_initialized THEN U
    ELSE [U EXCEPT !.destroyed = @ \o DestroyTextures(U.m_textures)
                                   \o (IF U.m_defaultSampler # VK_NULL_HANDLE
                                       THEN << GpuDestroy("sampler", U.m_defaultSampler) >>
                                       ELSE << >>),
                   !.m_textures = {},
                   !.m_defaultSampler = VK_NULL_HANDLE,
                   !.m_initialized = FALSE]

InitUi ==
    /\ NoObjects
    /\ app = [U |-> RmlRendererObject, op |-> "none", n |-> 0]

UiCalled(name, U) ==
    /\ app.n < MaxUiCalls
    /\ app' = [U |-> U, op |-> name, n |-> app.n + 1]
    /\ UNCHANGED notAppVars

UiInitialize ==
    \E how \in {"ok", "sampler_fails", "buffer_fails"} :
       UiCalled("Initialize", RmlRenderer_Initialize(app.U, how))

UiLoadTexture ==
    /\ Cardinality(app.U.m_textures) < MaxTextures
    /\ \E decoded \in BOOLEAN, ok \in BOOLEAN :
          UiCalled("LoadTexture", RmlRenderer_LoadTexture(app.U, decoded, ok))

UiGenerateTexture ==
    /\ Cardinality(app.U.m_textures) < MaxTextures
    /\ \E ok \in BOOLEAN : UiCalled("GenerateTexture", RmlRenderer_GenerateTexture(app.U, ok))

UiReleaseTexture ==
    \E texture \in 0..(app.U.m_nextTextureHandle - 1) :
       UiCalled("ReleaseTexture", RmlRenderer_ReleaseTexture(app.U, texture))

\* the final Cleanup: nothing is called on the renderer after it
UiCleanup ==
    /\ app.op # "Cleanup"
    /\ app' = [U |-> RmlRenderer_Cleanup(app.U), op |-> "Cleanup", n |-> MaxUiCalls]
    /\ UNCHANGED notAppVars

NextUi ==
    \/ UiInitialize
    \/ UiLoadTexture
    \/ UiGenerateTexture
    \/ UiReleaseTexture
    \/ UiCleanup

SpecUi == InitUi /\ [][NextUi]_vars

(* ------------------------- the EventSystem ---------------------------- *)
MaxEvents == 3
MaxSubscribers == 2

EventTypes == {"NavigationEvent", "KeyEvent"}

\* Event::GetType of each event class (NavigationManager.h:20, InputEvents.h:16)
GetType(T) ==
    CASE T = "NavigationEvent" -> "NavigationEvent"
      [] T = "KeyEvent" -> "KeyEvent"

\* typeid(T).name() is implementation-defined: the Itanium ABI gives the
\* mangled name, MSVC the class key and the name (NavigationEvent is a struct,
\* NavigationManager.h:13; KeyEvent is a class, InputEvents.h)
TypeidNames == {"itanium", "msvc"}

TypeidName(abi, T) ==
    CASE abi = "itanium" /\ T = "NavigationEvent" -> "15NavigationEvent"
      [] abi = "itanium" /\ T = "KeyEvent" -> "8KeyEvent"
      [] abi = "msvc" /\ T = "NavigationEvent" -> "struct NavigationEvent"
      [] abi = "msvc" /\ T = "KeyEvent" -> "class KeyEvent"

\* EventSystem's members (EventSystem.h:48-51) after Initialize, the local
\* queue of a running ProcessEvents, and the record of handler invocations
EventSystemObject ==
    [m_handlers |-> << >>, m_eventQueue |-> << >>, eventsToProcess |-> << >>,
     processing |-> FALSE, published |-> 0, taken |-> {}, delivered |-> << >>]

\* EventSystem::Subscribe<T> (EventSystem.h:55-67)
EventSystem_Subscribe(Q, abi, T) ==
    [Q EXCEPT !.m_handlers = Append(@, [eventType |-> TypeidName(abi, T), T |-> T])]

\* EventSystem::Publish<T> (EventSystem.h:69-73) and PublishEvent
\* (EventSystem.cpp:60-63): one push under m_queueMutex
EventSystem_Publish(Q, T) ==
    [Q EXCEPT !.m_eventQueue = Append(@, [id |-> Q.published + 1, T |-> T]),
              !.published = @ + 1]

\* EventSystem::ProcessEvents, lines 66-72: the swap under m_queueMutex
EventSystem_TakeQueue(Q) ==
    [Q EXCEPT !.eventsToProcess = Q.m_eventQueue, !.m_eventQueue = << >>,
              !.taken = @ \cup Range(Q.m_eventQueue), !.processing = TRUE]

\* the handlers the loop of lines 80-88 invokes for one event, in order; the
\* wrapper of EventSystem.h:59-64 calls the user's handler when the cast succeeds
RECURSIVE Dispatched(_, _, _)
Dispatched(handlers, event, k) ==
    IF k > Len(handlers) THEN << >>
    ELSE (IF handlers[k].eventType = GetType(event.T) /\ handlers[k].T = event.T
          THEN << [handler |-> k, id |-> event.id] >> ELSE << >>)
         \o Dispatched(handlers, event, k + 1)

\* EventSystem::ProcessEvents, lines 75-91: one turn of the loop; republish:
\* an invoked handler publishes an event of type T
EventSystem_DispatchFront(Q, republish, T) ==
    LET calls_ == Dispatched(Q.m_handlers, Head(Q.eventsToProcess), 1)
        after == [Q EXCEPT !.delivered = @ \o calls_, !.eventsToProcess = Tail(@)]
    IN  IF republish /\ calls_ # << >> THEN EventSystem_Publish(after, T) ELSE after

InitEvents ==
    /\ NoObjects
    /\ \E abi \in TypeidNames : app = [Q |-> EventSystemObject, abi |-> abi]

EvStep(Q) ==
    /\ app' = [app EXCEPT !.Q = Q]
    /\ UNCHANGED notAppVars

\* handlers are registered before events are published
EvSubscribe ==
    /\ Len(app.Q.m_handlers) < MaxSubscribers
    /\ app.Q.published = 0
    /\ \E T \in EventTypes : EvStep(EventSystem_Subscribe(app.Q, app.abi, T))

\* any thread publishes
EvPublish ==
    /\ app.Q.published < MaxEvents
    /\ \E T \in EventTypes : EvStep(EventSystem_Publish(app.Q, T))

\* the processing thread enters ProcessEvents
EvProcessBegin ==
    /\ ~app.Q.processing
    /\ app.Q.m_eventQueue # << >>
    /\ EvStep(EventSystem_TakeQueue(app.Q))

EvDispatch ==
    /\ app.Q.processing
    /\ app.Q.eventsToProcess # << >>
    /\ \E republish \in BOOLEAN, T \in EventTypes :
          /\ republish => app.Q.published < MaxEvents
          /\ EvStep(EventSystem_DispatchFront(app.Q, republish, T))

\* the local queue is empty: ProcessEvents returns
EvProcessEnd ==
    /\ app.Q.processing
    /\ app.Q.eventsToProcess = << >>
    /\ EvStep([app.Q EXCEPT !.processing = FALSE])

NextEvents ==
    \/ EvSubscribe
    \/ EvPublish
    \/ EvProcessBegin
    \/ EvDispatch
    \/ EvProcessEnd

SpecEvents == InitEvents /\ [][NextEvents]_vars

(* -------------------- choosing the physical device -------------------- *)
MaxDevices == 2
MaxImageDimension == 2

\* what the driver reports for one physical device: the answers read by
\* IsDeviceSuitable and RateDeviceSuitability
PhysicalDevices ==
    [queueFamilies : BOOLEAN, extensions : BOOLEAN, formats : 0..1, presentModes : 0..1,
     samplerAnisotropy : BOOLEAN, geometryShader : BOOLEAN, discrete : BOOLEAN,
     maxImageDimension2D : 1..MaxImageDimension]

\* VulkanDevice::IsDeviceSuitable (VulkanDevice.cpp:311-326)
IsDeviceSuitable(device) ==
    LET extensionsSupported == device.extensions
        swapChainAdequate ==
          extensionsSupported /\ device.formats # 0 /\ device.presentModes # 0
    IN  device.queueFamilies /\ extensionsSupported /\ swapChainAdequate
          /\ device.samplerAnisotropy

\* VulkanDevice::RateDeviceSuitability (VulkanDevice.cpp:380-402)
RateDeviceSuitability(device) ==
    IF ~device.geometryShader THEN 0
    ELSE (IF device.discrete THEN 1000 ELSE 0) + device.maxImageDimension2D

\* the loop of PickPhysicalDevice (lines 187-195) from device i on
RECURSIVE PickLoop(_, _, _, _)
PickLoop(devices, i, bestScore, bestDevice) ==
    IF i > Len(devices) THEN bestDevice
    ELSE IF IsDeviceSuitable(devices[i]) /\ RateDeviceSuitability(devices[i]) > bestScore
         THEN PickLoop(devices, i + 1, RateDeviceSuitability(devices[i]), i)
         ELSE PickLoop(devices, i + 1, bestScore, bestDevice)

\* VulkanDevice::PickPhysicalDevice (VulkanDevice.cpp:170-211); a device's
\* handle is its position in the enumeration
PickPhysicalDevice(devices) ==
    IF Len(devices) = 0 THEN [ret |-> FALSE, m_physicalDevice |-> VK_NULL_HANDLE]
    ELSE LET bestDevice == PickLoop(devices, 1, -1, VK_NULL_HANDLE)
         IN  [ret |-> bestDevice # VK_NULL_HANDLE, m_physicalDevice |-> bestDevice]

NotPicked == [ret |-> FALSE, m_physicalDevice |-> VK_NULL_HANDLE]

InitPick ==
    /\ NoObjects
    /\ \E n \in 0..MaxDevices : \E devices \in [1..n -> PhysicalDevices] :
          app = [devices |-> devices, called |-> FALSE, picked |-> NotPicked]

PkPickPhysicalDevice ==
    /\ ~app.called
    /\ app' = [app EXCEPT !.called = TRUE, !.picked = PickPhysicalDevice(app.devices)]
    /\ UNCHANGED notAppVars

NextPick == PkPickPhysicalDevice

SpecPick == InitPick /\ [][NextPick]_vars

(* ------------------ the barrier of a layout transition ----------------- *)
MaxTransitions == 2

\* the formats the ResourceManager tells apart (ResourceManager.cpp:197-199)
\* and a colour format
VkFormats == {"R8G8B8A8_UNORM", "D32_SFLOAT", "D32_SFLOAT_S8_UINT", "D24_UNORM_S8_UINT"}

\* ResourceManager::HasStencilComponent (ResourceManager.cpp:560-562)
HasStencilComponent(format) == format \in {"D32_SFLOAT_S8_UINT", "D24_UNORM_S8_UINT"}

NoBarrier ==
    [recorded |-> FALSE, oldLayout |-> "UNDEFINED", newLayout |-> "UNDEFINED",
     aspectMask |-> {}, srcAccessMask |-> {}, dstAccessMask |-> {},
     sourceStage |-> "none", destinationStage |-> "none"]

\* variant: the barrier always names the colour aspect
ImageBarrier_ColorAspect(format, oldLayout, newLayout) ==
    LET filled == [NoBarrier EXCEPT !.recorded = TRUE, !.oldLayout = oldLayout,
                                    !.newLayout = newLayout, !.aspectMask = {"COLOR"}]
    IN  IF oldLayout = "UNDEFINED" /\ newLayout = "TRANSFER_DST_OPTIMAL"
        THEN [filled EXCEPT !.dstAccessMask = {"TRANSFER_WRITE"},
                            !.sourceStage = "TOP_OF_PIPE", !.destinationStage = "TRANSFER"]
        ELSE IF oldLayout = "TRANSFER_DST_OPTIMAL" /\ newLayout = "SHADER_READ_ONLY_OPTIMAL"
        THEN [filled EXCEPT !.srcAccessMask = {"TRANSFER_WRITE"},
                            !.dstAccessMask = {"SHADER_READ"},
                            !.sourceStage = "TRANSFER", !.destinationStage = "FRAGMENT_SHADER"]
        ELSE IF oldLayout = "UNDEFINED" /\ newLayout = "DEPTH_STENCIL_ATTACHMENT_OPTIMAL"
        THEN [filled EXCEPT !.dstAccessMask = {"DEPTH_STENCIL_ATTACHMENT_READ",
                                                "DEPTH_STENCIL_ATTACHMENT_WRITE"},
                            !.sourceStage = "TOP_OF_PIPE",
                            !.destinationStage = "EARLY_FRAGMENT_TESTS"]
        ELSE NoBarrier

\* the VkImageMemoryBarrier and the stages TransitionImageLayout hands to
\* vkCmdPipelineBarrier (ResourceManager.cpp:386-433); an unsupported pair
\* records nothing
ImageBarrier(format, oldLayout, newLayout) ==
    LET aspectMask ==
          IF newLayout = "DEPTH_STENCIL_ATTACHMENT_OPTIMAL"
          THEN {"DEPTH"} \cup (IF HasStencilComponent(format) THEN {"STENCIL"} ELSE {})
          ELSE {"COLOR"}
        filled == [NoBarrier EXCEPT !.recorded = TRUE, !.oldLayout = oldLayout,
                                    !.newLayout = newLayout, !.aspectMask = aspectMask]
    IN  IF oldLayout = "UNDEFINED" /\ newLayout = "TRANSFER_DST_OPTIMAL"
        THEN [filled EXCEPT !.dstAccessMask = {"TRANSFER_WRITE"},
                            !.sourceStage = "TOP_OF_PIPE", !.destinationStage = "TRANSFER"]
        ELSE IF oldLayout = "TRANSFER_DST_OPTIMAL" /\ newLayout = "SHADER_READ_ONLY_OPTIMAL"
        THEN [filled EXCEPT !.srcAccessMask = {"TRANSFER_WRITE"},
                            !.dstAccessMask = {"SHADER_READ"},
                            !.sourceStage = "TRANSFER", !.destinationStage = "FRAGMENT_SHADER"]
        ELSE IF oldLayout = "UNDEFINED" /\ newLayout = "DEPTH_STENCIL_ATTACHMENT_OPTIMAL"
        THEN [filled EXCEPT !.dstAccessMask = {"DEPTH_STENCIL_ATTACHMENT_READ",
                                                "DEPTH_STENCIL_ATTACHMENT_WRITE"},
                            !.sourceStage = "TOP_OF_PIPE",
                            !.destinationStage = "EARLY_FRAGMENT_TESTS"]
        ELSE NoBarrier

\* the barriers behind the vkCmdPipelineBarrier calls in `ops`
BarriersOf(ops, format, oldLayout, newLayout) ==
    [i \in 1..CountCalls(ops, "vkCmdPipelineBarrier") |->
       ImageBarrier(format, oldLayout, newLayout)]

\* A ResourceManager on which TransitionImageLayout is called; app: the last
\* call's arguments, what it recorded and submitted, the number of calls
InitBarrier ==
    /\ NoSwapSide /\ InitRmSide /\ NoTexSide /\ NoCbSide /\ NoLifeSide
    /\ app = [format |-> "R8G8B8A8_UNORM", oldLayout |-> "UNDEFINED",
              newLayout |-> "UNDEFINED", st |-> "ok", initialized |-> FALSE,
              barriers |-> << >>, ops |-> << >>, cmdOps |-> << >>, n |-> 0]

BrTransitionImageLayout ==
    /\ app.n < MaxTransitions
    /\ \E image \in RawImageArgs, format \in VkFormats,
          oldLayout \in VkImageLayouts, newLayout \in VkImageLayouts :
       \E st \in OutcomesIf(rm.m_initialized) :
       \E r \in {TransitionImageLayout(CurR, image, oldLayout, newLayout, st)} :
          /\ app' = [format |-> format, oldLayout |-> oldLayout, newLayout |-> newLayout,
                     st |-> st, initialized |-> rm.m_initialized,
                     barriers |-> BarriersOf(r.ops, format, oldLayout, newLayout),
                     ops |-> r.ops, cmdOps |-> r.cmdOps, n |-> app.n + 1]
          /\ rm' = r.R.rm
          /\ vma' = r.R.vma
          /\ cmd' = r.R.cmd
          /\ UNCHANGED << client, rmCalls, last >>
          /\ UNCHANGED << swapVars, texVars, cbVars, lifeVars >>

NextBarrier ==
    \/ CallInitialize
    \/ BrTransitionImageLayout

SpecBarrier == InitBarrier /\ [][NextBarrier]_vars

(* ---------------------- the commands of GenerateMipmaps ---------------- *)
MaxExtent == 5
MaxMipLevels == 4

\* variant: the halved size is not kept at 1 or above
Half_NoClamp(x) == x \div 2

\* the destination size of a blit, `mipWidth > 1 ? mipWidth / 2 : 1`
\* (ResourceManager.cpp:489), which is also the next level's size (lines 516-517)
Half(x) == IF x > 1 THEN x \div 2 ELSE 1

MipBarrier(level, oldLayout, newLayout) ==
    [cmd |-> "vkCmdPipelineBarrier", level |-> level, oldLayout |-> oldLayout,
     newLayout |-> newLayout, src |-> [w |-> 0, h |-> 0], dst |-> [w |-> 0, h |-> 0]]

\* a blit from `level` into level + 1
MipBlit(level, mipWidth, mipHeight) ==
    [cmd |-> "vkCmdBlitImage", level |-> level, oldLayout |-> "TRANSFER_SRC_OPTIMAL",
     newLayout |-> "TRANSFER_DST_OPTIMAL", src |-> [w |-> mipWidth, h |-> mipHeight],
     dst |-> [w |-> Half(mipWidth), h |-> Half(mipHeight)]]

\* the loop of GenerateMipmaps (ResourceManager.cpp:471-518) from level i on
RECURSIVE MipLoop(_, _, _, _)
MipLoop(i, mipLevels, mipWidth, mipHeight) ==
    IF i >= mipLevels THEN << >>
    ELSE << MipBarrier(i - 1, "TRANSFER_DST_OPTIMAL", "TRANSFER_SRC_OPTIMAL"),
            MipBlit(i - 1, mipWidth, mipHeight),
            MipBarrier(i - 1, "TRANSFER_SRC_OPTIMAL", "SHADER_READ_ONLY_OPTIMAL") >>
         \o MipLoop(i + 1, mipLevels, Half(mipWidth), Half(mipHeight))

\* what GenerateMipmaps records between BeginSingleTimeCommands and
\* EndSingleTimeCommands (ResourceManager.cpp:468-531)
MipCommands(width, height, mipLevels) ==
    MipLoop(1, mipLevels, width, height)
      \o << MipBarrier(mipLevels - 1, "TRANSFER_DST_OPTIMAL", "SHADER_READ_ONLY_OPTIMAL") >>

\* A ResourceManager on which GenerateMipmaps is called for one image of
\* width x height with mipLevels levels; app: the image's size and levels, the
\* last call's other arguments, what it recorded and submitted, the number of
\* calls
InitMips ==
    /\ NoSwapSide /\ InitRmSide /\ NoTexSide /\ NoCbSide /\ NoLifeSide
    /\ \E width \in 1..MaxExtent, height \in 1..MaxExtent, mipLevels \in 1..MaxMipLevels :
          app = [width |-> width, height |-> height, mipLevels |-> mipLevels,
                 linearBlit |-> FALSE, st |-> "ok", initialized |-> FALSE,
                 commands |-> << >>, ops |-> << >>, cmdOps |-> << >>, n |-> 0]

MmGenerateMipmaps ==
    /\ app.n < MaxTransitions
    /\ \E image \in RawImageArgs, linearBlit \in BOOLEAN :
       \E st \in OutcomesIf(rm.m_initialized /\ linearBlit) :
       \E r \in {GenerateMipmaps(CurR, image, linearBlit, app.mipLevels, st)} :
          /\ app' = [app EXCEPT !.linearBlit = linearBlit, !.st = st,
                                !.initialized = rm.m_initialized,
                                !.commands = IF r.ops = << >> THEN << >>
                                             ELSE MipCommands(app.width, app.height,
                                                              app.mipLevels),
                                !.ops = r.ops, !.cmdOps = r.cmdOps, !.n = @ + 1]
          /\ rm' = r.R.rm
          /\ vma' = r.R.vma
          /\ cmd' = r.R.cmd
          /\ UNCHANGED << client, rmCalls, last >>
          /\ UNCHANGED << swapVars, texVars, cbVars, lifeVars >>

NextMips ==
    \/ CallInitialize
    \/ MmGenerateMipmaps

SpecMips == InitMips /\ [][NextMips]_vars

(* ============================ properties ============================== *)

\* C1: in every interleaving of the frame loop (BeginFrame, a submit with the
\* current slot's fence, EndFrame) with asynchronous GPU completion, at most
\* MAX_FRAMES_IN_FLIGHT (2) frames are in flight, and once frame N has acquired
\* its image no frame numbered N-2 or lower is still unfinished: the acquire
\* did not return before the fence of frame N-2 was signaled.
C1_AtMostTwoFramesInFlight ==
    /\ Cardinality(vk.inFlight) <= MAX_FRAMES_IN_FLIGHT
    /\ acquired => \A w \in vk.inFlight : w.frame > frameNo - MAX_FRAMES_IN_FLIGHT

\* Frame 3 acquired and submitted while frame 2 is still running
C1_Witness ==
    /\ acquired
    /\ frameNo >= 3
    /\ { w.frame : w \in vk.inFlight } = {frameNo - 1, frameNo}

\* A stepwise VulkanSwapchain method (RecreateSwapchain, AcquireNextImage)
\* returns to its caller in this step
Returns(name) ==
    /\ op' = name
    /\ pc \in {"rc_enter", "rc_idle", "acquire"}
    /\ pc' \in {"idle", "body", "acquire"}
    /\ pc' # pc

\* C2: the staleness flag follows Uninitialized -> Ready -> Stale -> Ready. It is
\* false after every successful Initialize; it becomes true only through an
\* out-of-date acquire, an out-of-date or suboptimal present, or MarkOutOfDate;
\* once true it stays true until a RecreateSwapchain call succeeds, which makes
\* it false.
C2_StalenessStateMachine ==
    [][ /\ (ApiInitialize /\ retval') => ~sc'.m_outOfDate
        /\ (~sc.m_outOfDate /\ sc'.m_outOfDate) =>
              \/ AcquireStep /\ vkResult' = "VK_ERROR_OUT_OF_DATE_KHR"
              \/ ApiPresentImage /\ vkResult' \in {"VK_ERROR_OUT_OF_DATE_KHR", "VK_SUBOPTIMAL_KHR"}
              \/ ApiMarkOutOfDate
        /\ (sc.m_outOfDate /\ ~sc'.m_outOfDate) => (RecreateRebuildStep /\ retval')
        /\ (RecreateRebuildStep /\ retval') => ~sc'.m_outOfDate
      ]_vars

\* The step of AcquireNextImage is taken: only it leaves the position "acquire"
AcquireTaken == pc = "acquire" /\ pc' # pc

\* C3: when vkAcquireNextImageKHR reports out-of-date, AcquireNextImage returns
\* false, sets the staleness flag and leaves the current slot's fence as it was
\* after the wait (signaled), so a retry on the same slot passes its wait; a
\* fence is reset by AcquireNextImage only when the acquire returned success or
\* suboptimal.
C3_OutOfDateAcquireKeepsFence ==
    [][ (AcquireTaken /\ pc' # "ub" /\ vkResult' # NoCall) =>
          /\ vkResult' = "VK_ERROR_OUT_OF_DATE_KHR" =>
                /\ ~retval'
                /\ sc'.m_outOfDate
                /\ vk'.signaled = vk.signaled
                /\ sc'.m_currentFrame = sc.m_currentFrame
                /\ FenceWaitDone([sc |-> sc', vk |-> vk'])
          /\ vk'.signaled # vk.signaled =>
                vkResult' \in {"VK_SUCCESS", "VK_SUBOPTIMAL_KHR"}
      ]_vars

\* An acquire has reported out-of-date and the slot's fence is still signaled
C3_Witness ==
    /\ op = "AcquireNextImage"
    /\ vkResult = "VK_ERROR_OUT_OF_DATE_KHR"
    /\ ~retval
    /\ sc.m_outOfDate
    /\ pc = "idle"
    /\ CurrentFence(Cur) \in vk.signaled

\* C4: when BeginFrame is entered with the staleness flag set or a resize
\* pending, it calls RecreateSwapchain before any AcquireNextImage and skips the
\* acquire when the recreation fails; the renderer never starts an acquire on a
\* swapchain whose staleness flag is set.
C4_RecreateBeforeAcquire ==
    [][ /\ (BeginFrame /\ (sc.m_outOfDate \/ renderer.m_framebufferResized)) =>
              pc' \in {"rc_enter", "body"}
        /\ (BeginFrame /\ renderer.m_initialized /\ renderer.m_swapchain
                       /\ (sc.m_outOfDate \/ renderer.m_framebufferResized)) =>
              pc' = "rc_enter"
        /\ (ret = "BeginFrame" /\ Returns("RecreateSwapchain") /\ ~retval') => pc' = "body"
        /\ (ret = "BeginFrame" /\ AcquireStep) => ~sc.m_outOfDate
      ]_vars

\* BeginFrame has recreated the swapchain and is about to acquire from it
C4_Witness ==
    /\ pc = "acquire"
    /\ ret = "BeginFrame"
    /\ op = "RecreateSwapchain"
    /\ retval
    /\ ~sc.m_outOfDate
    /\ frameNo >= 2

\* EndFrame reaches vkQueuePresentKHR in this step
PresentIssued == EndFrame /\ op' = "PresentImage" /\ vkResult' # NoCall

\* C5: within a BeginFrame/EndFrame pair EndFrame presents an image only if the
\* BeginFrame of the same frame obtained it through a successful
\* AcquireNextImage; when BeginFrame did not acquire, no present is issued, and
\* no present is issued on a swapchain whose staleness flag is set.
C5_PresentOnlyAcquiredImage ==
    [][ PresentIssued => (acquired /\ ~sc.m_outOfDate) ]_vars

\* C6: RecreateSwapchain called (on an initialized swapchain) while the
\* framebuffer has a zero dimension neither destroys nor creates the swapchain
\* while the size is zero, and when it returns true the swapchain extent has a
\* nonzero width and height, whatever the window system does during the call.
C6_NoRebuildWhileMinimized ==
    [][ (RecreateRebuildStep /\ loc.waited) =>
          /\ ~IsZero(fb)
          /\ retval' => ~IsZero(sc'.m_swapchainExtent)
      ]_vars

\* A step of a RecreateSwapchain call: the call is at one of its four positions
\* and moves on (the GPU and the window system leave pc alone)
RecreateStep ==
    /\ pc \in {"rc_enter", "rc_get", "rc_wait", "rc_idle"}
    /\ pc' # pc

\* The per-frame sync objects of a swapchain object
SyncHandles(o) ==
    (Range(o.m_imageAvailableSemaphores) \cup Range(o.m_renderFinishedSemaphores)
        \cup Range(o.m_inFlightFences)) \ {VK_NULL_HANDLE}

\* C7: RecreateSwapchain rebuilds only the swapchain handle, its image list and
\* its image views. No step of it, successful or failed, changes the
\* image-available semaphores, the render-finished semaphores, the in-flight
\* fences, the signaled state of any fence, or the current frame index, and the
\* sync objects stay alive.
C7_RecreateKeepsSyncObjects ==
    [][ RecreateStep =>
          /\ sc'.m_imageAvailableSemaphores = sc.m_imageAvailableSemaphores
          /\ sc'.m_renderFinishedSemaphores = sc.m_renderFinishedSemaphores
          /\ sc'.m_inFlightFences = sc.m_inFlightFences
          /\ sc'.m_currentFrame = sc.m_currentFrame
          /\ vk'.signaled = vk.signaled
          /\ (SyncHandles(sc) \cap vk.live) \subseteq vk'.live
      ]_vars

\* A RecreateSwapchain has rebuilt the swapchain of an object whose current
\* slot's fence is unsignaled
C7_Witness ==
    /\ op = "RecreateSwapchain"
    /\ pc = "idle"
    /\ retval
    /\ Len(sc.m_inFlightFences) = MAX_FRAMES_IN_FLIGHT
    /\ SyncHandles(sc) \subseteq vk.live
    /\ CurrentFence(Cur) \notin vk.signaled

\* A create call is made on an initialized ResourceManager and every allocator
\* and device call it makes succeeds
SuccessfulCreate(name) ==
    rm.m_initialized /\ last'.op = name /\ last'.fault = "none" /\ rmCalls' # rmCalls

\* A destroy call is made on an initialized ResourceManager
DestroyCall == rm.m_initialized /\ last'.op \in {"DestroyBuffer", "DestroyImage"}
                                /\ rmCalls' # rmCalls

\* Resources created through the ResourceManager and not yet destroyed
LiveResources(a) == a.buffers \cup a.images

\* C8: on an initialized ResourceManager every successful create returns a
\* handle whose IsValid() is true and raises the allocation count by exactly 1,
\* every destroy of a valid handle lowers it by exactly 1, a destroy of an
\* invalid handle leaves it unchanged, and the count is never negative and
\* always equals the number of resources created and not yet destroyed.
C8_AllocationCount ==
    [][ /\ SuccessfulCreate("CreateBuffer") =>
              /\ AllocatedBuffer_IsValid(last'.buffer)
              /\ rm'.m_allocationCount = rm.m_allocationCount + 1
        /\ SuccessfulCreate("CreateImage") =>
              /\ AllocatedImage_IsValid(last'.image)
              /\ rm'.m_allocationCount = rm.m_allocationCount + 1
        /\ (DestroyCall /\ last'.argsValid) =>
              rm'.m_allocationCount = rm.m_allocationCount - 1
        /\ (DestroyCall /\ ~last'.argsValid) =>
              rm'.m_allocationCount = rm.m_allocationCount
        /\ rm'.m_allocationCount >= 0
        /\ rm'.m_allocationCount = Cardinality(LiveResources(vma'))
      ]_vars

\* Two resources were created and one of them has been destroyed
C8_Witness ==
    /\ rm.m_initialized
    /\ last.op \in {"DestroyBuffer", "DestroyImage"}
    /\ last.argsValid
    /\ rm.m_allocationCount = 1
    /\ Cardinality(LiveResources(vma)) = 1

\* A create call meets one of the failures: the ResourceManager is not
\* initialized, the allocation fails, or (CreateImage) the image view fails
FailedCreate ==
    /\ last'.op \in {"CreateBuffer", "CreateImage"}
    /\ rmCalls' # rmCalls
    /\ ~rm.m_initialized \/ last'.fault # "none"

\* The allocator's create calls among a call's operations
CreateAttempts(ops) ==
    SelectSeq(ops, LAMBDA c : c.api \in {"vmaCreateBuffer", "vmaCreateImage"})

\* C9: when the allocation fails, when CreateImage's image-view creation fails,
\* or when the ResourceManager is not initialized, CreateBuffer/CreateImage
\* return a handle with every field null, do not throw, leave the allocation
\* count unchanged and leave no allocation behind; the allocation is attempted
\* at most once (no retry, no fallback).
C9_FailedCreateReturnsNull ==
    [][ FailedCreate =>
          /\ last'.buffer = NullBuffer
          /\ last'.image = NullImage
          /\ ~AllocatedBuffer_IsValid(last'.buffer)
          /\ ~AllocatedImage_IsValid(last'.image)
          /\ ~last'.thrown
          /\ rm'.m_allocationCount = rm.m_allocationCount
          /\ vma' = vma
          /\ Len(CreateAttempts(last'.ops)) <= 1
      ]_vars

\* CreateImage has failed in its image-view creation, with another resource alive
C9_Witness ==
    /\ rm.m_initialized
    /\ last.op = "CreateImage"
    /\ last.fault = "view"
    /\ last.image = NullImage
    /\ rm.m_allocationCount = 1

\* The operations that act on a buffer or image passed by the caller
HandleOperations ==
    {"MapBuffer", "UnmapBuffer", "FlushBuffer", "InvalidateBuffer", "CopyBuffer",
     "CopyBufferToImage", "TransitionImageLayout", "GenerateMipmaps",
     "DestroyBuffer", "DestroyImage"}

\* One of them is called with a buffer or image whose handle or allocation
\* token is null
NullHandleCall ==
    last'.op \in HandleOperations /\ ~last'.argsValid /\ rmCalls' # rmCalls

\* C10: no ResourceManager operation records, submits or performs a device or
\* allocator operation on a buffer or image whose handle or allocation token is
\* null: such a call returns without effect and without allocating a command
\* buffer.
C10_NullHandleHasNoEffect ==
    [][ NullHandleCall =>
          /\ last'.ops = << >>
          /\ last'.cmdOps = << >>
          /\ ~last'.thrown
          /\ rm' = rm /\ vma' = vma /\ cmd' = cmd
      ]_vars

\* The commands a call recorded, and the command-buffer calls it made
RecordedApis(r) == { r.ops[i].api : i \in DOMAIN r.ops }

C12_NoSingleTimeBufferOutstanding == cmd = 0

\* The part of a command log that EndSingleTimeCommands made: from
\* vkEndCommandBuffer on (empty when the call did not get there)
RECURSIVE EndPart(_)
EndPart(log) ==
    IF log = << >> THEN << >>
    ELSE IF Head(log) = "vkEndCommandBuffer" THEN log
    ELSE EndPart(Tail(log))

CopyOperations == {"CopyBuffer", "CopyBufferToImage"}

\* C13: EndSingleTimeCommands frees the command buffer on every path, and on
\* the success path only after end-recording, the submission to the graphics
\* queue and the wait for that queue to be idle, in that order; so when
\* CopyBuffer or CopyBufferToImage returns normally, its single copy command was
\* submitted and waited for before the return.
C13_EndSingleTimeCommandsOrder ==
    [][ (rmCalls' # rmCalls /\ EndPart(last'.cmdOps) # << >>) =>
          LET end == EndPart(last'.cmdOps)
          IN  /\ end[Len(end)] = "vkFreeCommandBuffers"
              /\ cmd' = cmd
              /\ ~last'.thrown =>
                    end = << "vkEndCommandBuffer", "vkQueueSubmit", "vkQueueWaitIdle",
                             "vkFreeCommandBuffers" >>
              /\ last'.thrown =>
                    end \in { << "vkEndCommandBuffer", "vkFreeCommandBuffers" >>,
                              << "vkEndCommandBuffer", "vkQueueSubmit",
                                 "vkFreeCommandBuffers" >> }
              /\ (last'.op \in CopyOperations /\ ~last'.thrown) =>
                    /\ RecordedApis(last') \in { {"vkCmdCopyBuffer"}, {"vkCmdCopyBufferToImage"} }
                    /\ last'.cmdOps = << "vkAllocateCommandBuffers", "vkBeginCommandBuffer",
                                         "vkEndCommandBuffer", "vkQueueSubmit",
                                         "vkQueueWaitIdle", "vkFreeCommandBuffers" >>
      ]_vars

\* A CopyBuffer between two live buffers has returned normally
C13_Witness ==
    /\ last.op = "CopyBuffer"
    /\ ~last.thrown
    /\ last.ops # << >>
    /\ "vkQueueWaitIdle" \in Range(last.cmdOps)
    /\ cmd = 0

\* C14: in both texture upload paths an image only moves undefined ->
\* transfer-dst -> shader-read-only: every TransitionImageLayout is requested
\* with an oldLayout equal to the image's current layout, CopyBufferToImage is
\* issued only while the image is in transfer-dst layout, and every texture
\* returned to the caller has had its pixels copied and is in shader-read-only
\* layout.
C14_UploadLayoutSequence ==
    /\ \A i \in DOMAIN tex.requests : tex.requests[i].oldLayout = tex.requests[i].actual
    /\ \A i \in DOMAIN tex.copyLayouts : tex.copyLayouts[i] = "TRANSFER_DST_OPTIMAL"
    /\ tex.returned => (tex.copied /\ tex.layout = "SHADER_READ_ONLY_OPTIMAL")

\* C15: SubmitCommandBuffers returns false and submits nothing when the number
\* of wait semaphores differs from the number of wait stages, when the
\* command-buffer list is empty or when the layer is not initialized; otherwise
\* it makes exactly one submission, carrying the given command buffers, wait
\* semaphores, wait stages, signal semaphores and fence, on the given queue or on
\* the graphics queue when none is given.
Submissions(r) == { i \in DOMAIN r.log : r.log[i].api = "vkQueueSubmit" }

Rejected(C, info) ==
    \/ Len(info.waitSemaphores) # Len(info.waitStages)
    \/ info.commandBuffers = << >>
    \/ ~C.m_initialized

C15_SubmitCommandBuffers ==
    \A info \in SubmitInfos, okSubmit \in BOOLEAN :
       LET r == SubmitCommandBuffers(cb, ReadyDevice, info, okSubmit)
       IN  /\ r.C = cb
           /\ r.thrown = "none"
           /\ Rejected(cb, info) => (~r.ret /\ r.reported /\ Submissions(r) = {})
           /\ ~Rejected(cb, info) =>
                 /\ Cardinality(Submissions(r)) = 1
                 /\ Len(r.log) = 1
                 /\ r.log[1].submitCount = 1
                 /\ r.log[1].info.commandBuffers = info.commandBuffers
                 /\ r.log[1].info.waitSemaphores = info.waitSemaphores
                 /\ r.log[1].info.waitStages = info.waitStages
                 /\ r.log[1].info.signalSemaphores = info.signalSemaphores
                 /\ r.log[1].info.fence = info.fence
                 /\ r.log[1].queue = (IF info.queue = VK_NULL_HANDLE
                                      THEN GraphicsQueue ELSE info.queue)
                 /\ r.ret = okSubmit

C15_Witness ==
    /\ cb.m_initialized
    /\ cbLast.op = "SubmitCommandBuffers"
    /\ cbLast.info.commandBuffers # << >>
    /\ Len(cbLast.info.waitSemaphores) = 2
    /\ Len(cbLast.info.waitStages) = 1
    /\ ~cbLast.ret
    /\ cbLast.reported
    /\ cbLast.log = << >>

\* C16: ExecuteImmediate never lets a failure reach its caller: it returns true
\* exactly when BeginSingleTimeCommands, the recording callback and
\* EndSingleTimeCommands all complete, and returns false, after reporting, when
\* the callback is null or any of the three steps raises an error.
AllCompleted(c) ==
    /\ c.recordingFunction = "returns"
    /\ \E i \in DOMAIN c.log : c.log[i].api = "vkBeginCommandBuffer"
    /\ c.log[Len(c.log) - 1].api = "vkQueueWaitIdle"
    /\ c.log[Len(c.log)].api = "vkFreeCommandBuffers"

C16_ExecuteImmediateNeverPropagates ==
    cbLast.op = "ExecuteImmediate" =>
       /\ cbLast.thrown = "none"
       /\ cbLast.ret <=> (Len(cbLast.log) >= 2 /\ AllCompleted(cbLast))
       /\ ~cbLast.ret => cbLast.reported

\* C17: every teardown path (VulkanRenderer::Shutdown, VulkanSwapchain::Cleanup,
\* VulkanCommandBuffer::Cleanup, ResourceManager::Shutdown / Cleanup) waits for
\* the device to be idle before it destroys or frees its first resource.
TeardownCalls ==
    {"VulkanRenderer::Shutdown", "ResourceManager::Shutdown", "Engine::ShutdownModules"}

DeviceReleases ==
    {"vmaDestroyAllocator", "vkFreeCommandBuffers", "vkDestroyCommandPool", "vkDestroyFence",
     "vkDestroyImageView", "vkDestroySwapchainKHR", "vkDestroyDevice"}

WaitsBeforeFirstRelease(log) ==
    \A i \in DOMAIN log :
       log[i] \in DeviceReleases => \E j \in 1..(i - 1) : log[j] = "vkDeviceWaitIdle"

C17_TeardownWaitsForIdle ==
    lifeLast.op \in TeardownCalls => WaitsBeforeFirstRelease(engine.log)

\* C18: across engine and renderer shutdown the device context is destroyed
\* exactly once and in reverse dependency order: the logical device only after
\* the allocator, the command pool and its buffers, the swapchain, its image
\* views and its sync objects, and the instance only after the device, the
\* surface and the debug messenger.
ShutdownCalls == {"VulkanRenderer::Shutdown", "Engine::ShutdownModules"}

Occurrences(log, api) == Cardinality({ i \in DOMAIN log : log[i] = api })

DeviceContext == {"instance", "debugMessenger", "surface", "device"} \cup DeviceChildren

C18_ReverseDependencyOrder ==
    lifeLast.op \in ShutdownCalls =>
       /\ engine.orphaned = {}
       /\ \A api \in DeviceReleases \cup {"vkDestroyInstance", "vkDestroySurfaceKHR"} :
             api # "vkFreeCommandBuffers" => Occurrences(engine.log, api) <= 1
       /\ \A i \in DOMAIN engine.log, j \in DOMAIN engine.log :
             /\ (engine.log[i] = "vkDestroyDevice"
                   /\ engine.log[j] \in DeviceReleases \ {"vkDestroyDevice"}) => j < i
             /\ (engine.log[i] = "vkDestroyInstance"
                   /\ engine.log[j] \in {"vkDestroyDevice", "vkDestroySurfaceKHR"}) => j < i
       /\ engine.log # << >> =>
             /\ engine.alive \cap (DeviceContext \ {"allocator"}) = {}
             /\ Occurrences(engine.log, "vkDestroyDevice") = 1
             /\ Occurrences(engine.log, "vkDestroyInstance") = 1
       /\ lifeLast.op = "Engine::ShutdownModules" => engine.alive = {}

C18_Witness ==
    /\ lifeLast.op = "Engine::ShutdownModules"
    /\ "vmaDestroyAllocator" \in Range(engine.log)
    /\ "vkDestroyCommandPool" \in Range(engine.log)
    /\ "vkDestroySwapchainKHR" \in Range(engine.log)
    /\ "vkDestroyDevice" \in Range(engine.log)
    /\ engine.log[Len(engine.log) - 2] = "vkDestroyInstance"

\* C34: across any sequence of initialisations (successful or failed),
\* Cleanup/Shutdown calls and destructions of the device, swapchain, command
\* layer and renderer, each Vulkan object is destroyed at most once (a destroy
\* call is made only for an object that is alive), no child of the logical
\* device is destroyed after the device itself, and a Cleanup/Shutdown repeated
\* straight after itself makes no call and changes nothing.
ReleasedBy ==
    [api \in {"vkDestroyInstance", "vkDestroySurfaceKHR", "vkDestroyDevice",
              "vkDestroyCommandPool", "vkDestroySwapchainKHR", "vkDestroyImageView",
              "vkDestroyFence"} |->
       CASE api = "vkDestroyInstance" -> [obj |-> "instance", maker |-> "vkCreateInstance"]
         [] api = "vkDestroySurfaceKHR" -> [obj |-> "surface", maker |-> "glfwCreateWindowSurface"]
         [] api = "vkDestroyDevice" -> [obj |-> "device", maker |-> "vkCreateDevice"]
         [] api = "vkDestroyCommandPool" -> [obj |-> "commandPool", maker |-> "vkCreateCommandPool"]
         [] api = "vkDestroySwapchainKHR" -> [obj |-> "swapchain", maker |-> "vkCreateSwapchainKHR"]
         [] api = "vkDestroyImageView" -> [obj |-> "imageViews", maker |-> "vkCreateImageView"]
         [] api = "vkDestroyFence" -> [obj |-> "syncObjects", maker |-> "vkCreateFence"]]

\* the last position before i at which the object of log[i] was created or
\* destroyed inside the call (0: not touched by the call before i)
LastTouch(log, i) ==
    LET before == { j \in 1..(i - 1) : log[j] \in {log[i], ReleasedBy[log[i]].maker} }
    IN  IF before = {} THEN 0 ELSE CHOOSE j \in before : \A k \in before : k <= j

DestroysOnlyAlive(alive, log) ==
    \A i \in DOMAIN log :
       log[i] \in DOMAIN ReleasedBy =>
          LET j == LastTouch(log, i)
          IN  IF j = 0 THEN ReleasedBy[log[i]].obj \in alive
              ELSE log[j] = ReleasedBy[log[i]].maker

NeverThroughDestroyedDevice(alive, log) ==
    \A i \in DOMAIN log :
       log[i] \in DeviceReleases \ {"vkDestroyDevice", "vmaDestroyAllocator"} =>
          LET touched == { j \in 1..(i - 1) : log[j] \in {"vkDestroyDevice", "vkCreateDevice"} }
          IN  IF touched = {} THEN "device" \in alive
              ELSE log[CHOOSE j \in touched : \A k \in touched : k <= j] = "vkCreateDevice"

RendererTeardowns == {"VulkanRenderer::Shutdown", "Engine::ShutdownModules"}

C19_FailedDeviceInitializeUnwinds ==
    (lifeLast.op = "VulkanDevice::Initialize" /\ ~lifeLast.ret) =>
       /\ "vkCreateDevice" \in Range(engine.log) =>
             engine.log[Len(engine.log)] = "vkCreateDevice"
       /\ engine.alive \cap {"instance", "debugMessenger", "surface", "device"} = {}

\* C20: if VulkanRenderer::Initialize fails at any stage it returns false with
\* all partial state unwound: no window, GLFW initialization, device, command
\* pool or swapchain created by the call remains alive, and the renderer is left
\* uninitialized.
C20_FailedRendererInitializeUnwinds ==
    (lifeLast.op = "VulkanRenderer::Initialize" /\ ~lifeLast.ret) =>
       /\ ~engine.r.m_initialized
       /\ engine.alive = {}

\* C21: ChooseSwapPresentMode returns FIFO whenever vsync is enabled, whatever
\* modes are available; with vsync disabled it returns mailbox if mailbox is
\* available, otherwise immediate if immediate is available, otherwise FIFO.
C21_ChooseSwapPresentMode ==
    app.applied =>
        LET available == Range(app.availablePresentModes)
        IN  app.result =
               IF app.enableVSync THEN "FIFO"
               ELSE IF "MAILBOX" \in available THEN "MAILBOX"
               ELSE IF "IMMEDIATE" \in available THEN "IMMEDIATE"
               ELSE "FIFO"

\* vsync is disabled, mailbox is not offered and immediate is, after other modes
C21_Witness ==
    /\ app.applied
    /\ ~app.enableVSync
    /\ app.availablePresentModes = << "FIFO", "FIFO_RELAXED", "IMMEDIATE" >>
    /\ app.result = "IMMEDIATE"

\* v clamped into [lo, hi], stated without std::clamp
Clamped(v, lo, hi) == IF v < lo THEN lo ELSE IF v > hi THEN hi ELSE v

\* The framebuffer size, each component clamped into the surface's bounds
ClampedSize(size, capabilities) ==
    [ width  |-> Clamped(size.width, capabilities.minImageExtent.width,
                                     capabilities.maxImageExtent.width),
      height |-> Clamped(size.height, capabilities.minImageExtent.height,
                                      capabilities.maxImageExtent.height) ]

\* C22 as stated: the swapchain extent equals the surface's reported current
\* extent whenever that extent is not the max-uint "undefined" sentinel; when it
\* is the sentinel, the extent is the window's actual framebuffer pixel size with
\* width and height each clamped into [minImageExtent, maxImageExtent].
C22_ExtentFromFramebuffer ==
    app.applied =>
        app.result = IF app.capabilities.currentExtent.width # UINT32_MAX
                     THEN app.capabilities.currentExtent
                     ELSE ClampedSize(app.framebuffer, app.capabilities)

\* C22 amended: the swapchain extent equals the surface's reported current
\* extent whenever the width of that extent is not the max-uint sentinel; when
\* it is, the extent is the preferred size of the InitInfo if preferredWidth and
\* preferredHeight are both positive, and the window's framebuffer pixel size
\* otherwise, with width and height each clamped into the surface's bounds.
C22_ExtentFromPreferredOrFramebuffer ==
    app.applied =>
        app.result =
           IF app.capabilities.currentExtent.width # UINT32_MAX
           THEN app.capabilities.currentExtent
           ELSE IF app.initInfo.preferredWidth > 0 /\ app.initInfo.preferredHeight > 0
           THEN ClampedSize([width |-> app.initInfo.preferredWidth,
                             height |-> app.initInfo.preferredHeight], app.capabilities)
           ELSE ClampedSize(app.framebuffer, app.capabilities)

\* The surface reported the sentinel, a preferred size was given and the window
\* is minimized: the extent is the preferred size, not the clamped framebuffer
C22_Witness ==
    /\ app.applied
    /\ app.capabilities.currentExtent.width = UINT32_MAX
    /\ app.initInfo.preferredWidth > 0 /\ app.initInfo.preferredHeight > 0
    /\ app.framebuffer = [width |-> 0, height |-> 0]
    /\ app.capabilities.minImageExtent = [width |-> 0, height |-> 0]
    /\ app.result = [width |-> app.initInfo.preferredWidth,
                     height |-> app.initInfo.preferredHeight]

\* A CreateImage2D or CreateTexture2D call with a zero width or height returns
ZeroSizedCreate ==
    /\ rmCalls' # rmCalls
    /\ last'.op \in {"CreateImage2D", "CreateTexture2D"}
    /\ ~last'.argsValid

TwoAlikeInARow ==
    /\ Len(app) = 2
    /\ app[1].ok /\ app[2].ok
    /\ app[1].framebuffer = app[2].framebuffer
    /\ app[1].capabilities = app[2].capabilities

\* C23: RecreateSwapchain is idempotent on the extent: two consecutive
\* successful RecreateSwapchain calls with unchanged window dimensions and
\* unchanged surface capabilities yield the same swapchain extent both times.
C23_RecreateIdempotentOnExtent ==
    TwoAlikeInARow => app[1].extent = app[2].extent /\ sc.m_swapchainExtent = app[2].extent

\* Two such calls in a row on a swapchain initialized with a preferred size
\* that differs from the window's, the surface leaving the extent to the caller
C23_Witness ==
    /\ TwoAlikeInARow
    /\ app[2].capabilities.currentExtent.width = UINT32_MAX
    /\ sc.m_initInfo.preferredWidth > 0
    /\ sc.m_initInfo.preferredWidth # app[2].framebuffer.width
    /\ app[2].extent.width = sc.m_initInfo.preferredWidth

\* C25: a vsync change applied through ApplyGraphicsSettings takes effect at
\* the next swapchain recreation: after ApplyGraphicsSettings with vsync = v on
\* an initialized renderer and the following BeginFrame, the swapchain has been
\* recreated with the present mode that ChooseSwapPresentMode yields for
\* vsync = v.
C25_VSyncTakesEffectAtRecreation ==
    (app.requested /\ app.recreated) =>
        app.r.presentMode = ChooseSwapPresentMode(app.vsync, app.availablePresentModes)

\* C26: every GPU image created by AssetManager::LoadTexture is destroyed
\* through the ResourceManager when the AssetManager releases the texture
\* (UnloadAsset, UnloadAllAssets or Shutdown): once the AssetManager has shut
\* down and all texture references are dropped, the ResourceManager's
\* allocation count is back to its value before the loads (zero here: only
\* LoadTexture allocates) and no image is left in the allocator.
C26_TexturesDestroyedOnRelease ==
    (app.created /\ ~app.A.m_initialized /\ app.textures = {}) =>
        /\ rm.m_allocationCount = 0
        /\ vma.images = {}

\* C27: the Engine's running state follows its lifecycle: IsRunning() is true
\* immediately after a successful Engine::Initialize and false after
\* Engine::Shutdown returns, for any sequence of Initialize, RequestShutdown
\* and Shutdown calls; a second Initialize on an initialized engine returns
\* false and changes nothing.
C27_RunningFollowsLifecycle ==
    /\ (app.op = "Initialize" /\ app.ret) => Engine_IsRunning(app.G)
    /\ app.op = "Shutdown" => ~Engine_IsRunning(app.G)
    /\ (app.op = "Initialize" /\ app.before.m_initialized) =>
          (~app.ret /\ app.G = app.before)

\* An initialized engine whose shutdown was requested is initialized again
\* (refused), after an earlier Shutdown of a running engine was followed by a
\* new bring-up
C27_Witness ==
    /\ app.op = "Initialize"
    /\ app.before.m_initialized
    /\ ~app.before.m_running
    /\ app.n >= 3

\* C29: the frame loop never blocks forever on an in-flight fence: for any
\* sequence of BeginFrame/EndFrame pairs in which, after each successful
\* acquire, the caller submits zero or more command buffers with the slot's
\* in-flight fence, every AcquireNextImage fence wait eventually returns,
\* assuming the GPU eventually completes every submission it was given.
C29_FenceWaitReturns == (pc = "acquire") ~> (pc # "acquire")

\* C30: a pending recreation is never lost: if the RecreateSwapchain call made
\* by BeginFrame fails, recreation is still pending afterwards (the staleness
\* flag or the resize flag is set), so that a later BeginFrame retries it.
C30_FailedRecreationStaysPending ==
    (pc = "body" /\ op = "RecreateSwapchain" /\ ~retval) =>
        NeedsRecreate(Cur, renderer)

\* The swapchain is in the Uninitialized state of the state machine: no call
\* has returned yet or the last one was Cleanup, and it holds no swapchain
\* handle and no sync object
Uninitialized ==
    /\ op \in {"none", "Cleanup"}
    /\ sc.m_swapchain = VK_NULL_HANDLE
    /\ sc.m_inFlightFences = << >>
    /\ sc.m_imageAvailableSemaphores = << >>
    /\ sc.m_renderFinishedSemaphores = << >>

\* C31: RecreateSwapchain only rebuilds an initialized swapchain: called in the
\* Uninitialized state (before Initialize, or after Cleanup) it returns false
\* and creates nothing, so a swapchain handle never exists without its sync
\* objects.
C31_RecreateOnlyWhenInitialized ==
    [][ (pc \in {"rc_enter", "rc_idle"} /\ pc' = "idle" /\ Uninitialized) =>
          (~retval' /\ sc'.m_swapchain = VK_NULL_HANDLE) ]_vars

\* C32: map and unmap calls that reach the underlying allocator are balanced
\* per buffer: for any sequence of MapBuffer/UnmapBuffer pairs, including on
\* persistently mapped buffers, the number of underlying unmap operations
\* never exceeds the number of underlying map operations.
C32_UnmapsNeverExceedMaps == app.unmaps <= app.maps

\* C33: ExecuteImmediate leaves no transient command buffer allocated on any
\* path: if the recording callback raises an error after
\* BeginSingleTimeCommands has succeeded, the command buffer is still freed
\* before ExecuteImmediate returns false. As many transient command buffers
\* are allocated after a call that returned as before it.
C33_ExecuteImmediateFreesBuffer ==
    [][ (cbCalls' # cbCalls /\ cbLast'.op = "ExecuteImmediate" /\ cbLast'.thrown = "none") =>
          cb'.transient = cb.transient ]_vars

\* C35: in VulkanRmlRenderer no GPU object is destroyed twice: over any
\* sequence of texture creations, ReleaseTexture calls and a final Cleanup,
\* each sampler (the shared default sampler included) and each image appears in
\* at most one destroy call.
C35_NoGpuObjectDestroyedTwice ==
    \A i \in DOMAIN app.U.destroyed, j \in DOMAIN app.U.destroyed :
       app.U.destroyed[i] = app.U.destroyed[j] => i = j

\* C36: with threads publishing concurrently with one thread in
\* ProcessEvents, every published event of type T is delivered exactly once to
\* every handler registered with Subscribe<T>, in enqueue order, by the first
\* ProcessEvents that starts after it was enqueued: once a ProcessEvents call
\* has returned, each event it took has been handed once to each handler of
\* its type.
Deliveries(Q, k, id) ==
    Cardinality({ i \in DOMAIN Q.delivered : Q.delivered[i] = [handler |-> k, id |-> id] })

C36_DeliveredExactlyOnce ==
    ~app.Q.processing =>
       \A e \in app.Q.taken, k \in DOMAIN app.Q.m_handlers :
          app.Q.m_handlers[k].T = e.T => Deliveries(app.Q, k, e.id) = 1

\* C37: the per-frame sync ring, once made by Initialize, has exactly
\* MAX_FRAMES_IN_FLIGHT (2) slots whatever the number of swapchain images (before
\* that and after Cleanup there is no ring), and the current frame index is
\* always a valid slot: it is 0 on a new swapchain object, AdvanceFrame maps it
\* to (index + 1) mod 2, and no other operation changes it.
SyncRingSlots(s) ==
    {Len(s.m_imageAvailableSemaphores), Len(s.m_renderFinishedSemaphores),
     Len(s.m_inFlightFences)}

FrameRingShape(s) ==
    /\ s.m_currentFrame \in 0..(MAX_FRAMES_IN_FLIGHT - 1)
    /\ SyncRingSlots(s) \in {{0}, {MAX_FRAMES_IN_FLIGHT}}

C37_FrameIndexIsAValidSlot ==
    [][ /\ calls = 0 => sc.m_currentFrame = 0
        /\ FrameRingShape(sc) /\ FrameRingShape(sc')
        /\ (op' = "Initialize" /\ retval') => SyncRingSlots(sc') = {MAX_FRAMES_IN_FLIGHT}
        /\ (calls' # calls /\ pc = "idle" /\ pc' = "idle" /\ op' = "AdvanceFrame") =>
              sc'.m_currentFrame = (sc.m_currentFrame + 1) % MAX_FRAMES_IN_FLIGHT
        /\ sc'.m_currentFrame # sc.m_currentFrame =>
              (calls' # calls /\ pc = "idle" /\ pc' = "idle" /\ op' = "AdvanceFrame") ]_vars

\* the index has wrapped around to slot 0 on a swapchain whose image count is
\* not the ring size
C37_Witness ==
    /\ op = "AdvanceFrame"
    /\ calls = MaxCalls
    /\ sc.m_currentFrame = 0
    /\ SyncRingSlots(sc) = {MAX_FRAMES_IN_FLIGHT}
    /\ Len(sc.m_swapchainImages) # MAX_FRAMES_IN_FLIGHT
    /\ sc.m_swapchainImages # << >>

\* C38: PickPhysicalDevice selects, among the enumerated devices that have the
\* required queue families, device extensions and a non-empty set of surface
\* formats and present modes, one with the highest score, where score = (1000
\* if discrete) + maximum 2D image dimension; a device without geometry-shader
\* support is never selected, and when no other device qualifies selection
\* fails. Hence whenever selection succeeds the selected device has all of
\* these, geometry-shader support included.
Qualifies(device) ==
    /\ device.queueFamilies /\ device.extensions
    /\ device.formats # 0 /\ device.presentModes # 0
    /\ device.geometryShader

C38_SelectedDeviceQualifies ==
    (app.called /\ app.picked.ret) => Qualifies(app.devices[app.picked.m_physicalDevice])

\* C39: for each of the three supported pairs TransitionImageLayout records
\* exactly one image barrier and submits it in one single-time command
\* sequence: undefined -> transfer-dst with access none -> transfer-write and
\* stages top-of-pipe -> transfer; transfer-dst -> shader-read-only with
\* transfer-write -> shader-read and stages transfer -> fragment-shader;
\* undefined -> depth-stencil-attachment with none -> depth-stencil read|write
\* and stages top-of-pipe -> early-fragment-tests, with the depth (plus
\* stencil, when the format has one) aspect instead of the colour aspect.
StencilFormats == {"D32_SFLOAT_S8_UINT", "D24_UNORM_S8_UINT"}

BarrierIs(b, src, dst, from, to, aspect) ==
    /\ b.recorded
    /\ b.srcAccessMask = src /\ b.dstAccessMask = dst
    /\ b.sourceStage = from /\ b.destinationStage = to
    /\ b.aspectMask = aspect

TransitionCompleted == app.n > 0 /\ app.initialized /\ app.st = "ok"

C39_BarrierOfEachSupportedPair ==
    (TransitionCompleted /\ SupportedTransition(app.oldLayout, app.newLayout)) =>
       /\ Len(app.ops) = 1 /\ Len(app.barriers) = 1
       /\ app.barriers[1].oldLayout = app.oldLayout
       /\ app.barriers[1].newLayout = app.newLayout
       /\ Occurrences(app.cmdOps, "vkBeginCommandBuffer") = 1
       /\ Occurrences(app.cmdOps, "vkQueueSubmit") = 1
       /\ (app.oldLayout = "UNDEFINED" /\ app.newLayout = "TRANSFER_DST_OPTIMAL") =>
             BarrierIs(app.barriers[1], {}, {"TRANSFER_WRITE"}, "TOP_OF_PIPE", "TRANSFER",
                       {"COLOR"})
       /\ (app.oldLayout = "TRANSFER_DST_OPTIMAL"
             /\ app.newLayout = "SHADER_READ_ONLY_OPTIMAL") =>
             BarrierIs(app.barriers[1], {"TRANSFER_WRITE"}, {"SHADER_READ"}, "TRANSFER",
                       "FRAGMENT_SHADER", {"COLOR"})
       /\ (app.oldLayout = "UNDEFINED"
             /\ app.newLayout = "DEPTH_STENCIL_ATTACHMENT_OPTIMAL") =>
             BarrierIs(app.barriers[1], {},
                       {"DEPTH_STENCIL_ATTACHMENT_READ", "DEPTH_STENCIL_ATTACHMENT_WRITE"},
                       "TOP_OF_PIPE", "EARLY_FRAGMENT_TESTS",
                       IF app.format \in StencilFormats THEN {"DEPTH", "STENCIL"}
                                                        ELSE {"DEPTH"})

\* a depth image with a stencil component has been moved to the
\* depth-stencil-attachment layout
C39_Witness ==
    /\ TransitionCompleted
    /\ app.oldLayout = "UNDEFINED" /\ app.newLayout = "DEPTH_STENCIL_ATTACHMENT_OPTIMAL"
    /\ app.format = "D24_UNORM_S8_UINT"
    /\ Len(app.barriers) = 1
    /\ app.barriers[1].aspectMask = {"DEPTH", "STENCIL"}

\* C40: when the format supports linear-filtered blits, GenerateMipmaps for an
\* image of size w x h with n >= 1 levels, all in transfer-dst layout, records
\* for each i from 1 to n-1 in order a transfer-dst -> transfer-src barrier on
\* level i-1, one blit from level i-1 of size max(1, floor(w/2^(i-1))) x
\* max(1, floor(h/2^(i-1))) into level i of size max(1, floor(w/2^i)) x
\* max(1, floor(h/2^i)), and a transfer-src -> shader-read-only barrier on
\* level i-1; it then moves level n-1 to shader-read-only, so that every level
\* ends in shader-read-only. When the format check fails it records and
\* submits nothing.
RECURSIVE PowerOfTwo(_)
PowerOfTwo(i) == IF i = 0 THEN 1 ELSE 2 * PowerOfTwo(i - 1)

LevelSize(w, h, i) ==
    LET AtLeastOne(x) == IF x < 1 THEN 1 ELSE x
    IN  [w |-> AtLeastOne(w \div PowerOfTwo(i)), h |-> AtLeastOne(h \div PowerOfTwo(i))]

\* the layout of `level` after the first k commands, each level starting in
\* transfer-dst; a barrier whose old layout is not the level's layout leaves
\* the level "UNDEFINED"
RECURSIVE LayoutAfter(_, _, _)
LayoutAfter(commands, k, level) ==
    IF k = 0 THEN "TRANSFER_DST_OPTIMAL"
    ELSE LET before == LayoutAfter(commands, k - 1, level)
             c == commands[k]
         IN  IF c.cmd # "vkCmdPipelineBarrier" \/ c.level # level THEN before
             ELSE IF c.oldLayout = before THEN c.newLayout ELSE "UNDEFINED"

MipsCompleted == app.n > 0 /\ app.initialized /\ app.st = "ok"

C40_MipChainCommands ==
    /\ (MipsCompleted /\ app.linearBlit) =>
          /\ Len(app.commands) = 3 * (app.mipLevels - 1) + 1
          /\ Len(app.ops) = Len(app.commands)
          /\ \A k \in DOMAIN app.ops : app.ops[k].api = app.commands[k].cmd
          /\ \A i \in 1..(app.mipLevels - 1) :
                LET first == app.commands[3 * (i - 1) + 1]
                    blit == app.commands[3 * (i - 1) + 2]
                    second == app.commands[3 * (i - 1) + 3]
                IN  /\ first = MipBarrier(i - 1, "TRANSFER_DST_OPTIMAL", "TRANSFER_SRC_OPTIMAL")
                    /\ blit.cmd = "vkCmdBlitImage" /\ blit.level = i - 1
                    /\ blit.src = LevelSize(app.width, app.height, i - 1)
                    /\ blit.dst = LevelSize(app.width, app.height, i)
                    /\ second = MipBarrier(i - 1, "TRANSFER_SRC_OPTIMAL",
                                           "SHADER_READ_ONLY_OPTIMAL")
          /\ app.commands[Len(app.commands)] =
                MipBarrier(app.mipLevels - 1, "TRANSFER_DST_OPTIMAL",
                           "SHADER_READ_ONLY_OPTIMAL")
          /\ \A level \in 0..(app.mipLevels - 1) :
                LayoutAfter(app.commands, Len(app.commands), level)
                   = "SHADER_READ_ONLY_OPTIMAL"
          /\ Occurrences(app.cmdOps, "vkQueueSubmit") = 1
    /\ (app.n > 0 /\ app.initialized /\ ~app.linearBlit) =>
          app.commands = << >> /\ app.ops = << >> /\ app.cmdOps = << >>

\* a chain whose width reaches 1 before its height: 1 x 4 halves to 1 x 2 and
\* then to 1 x 1
C40_Witness ==
    /\ MipsCompleted /\ app.linearBlit
    /\ app.width = 1 /\ app.height = 4 /\ app.mipLevels = 3
    /\ Len(app.commands) = 7
    /\ app.commands[5].dst = [w |-> 1, h |-> 1]

====
